---- MODULE Spec2Model ----
(***************************************************************************)
(* State-machine model of the slsm storage engine (src/src/main.ts,        *)
(* createSmartLocalStorage).                                               *)
(*                                                                         *)
(* Conventions                                                             *)
(*  - Time is Date.now() in milliseconds, measured from                    *)
(*    TTL_REFERENCE_EPOCH_MS (so the epoch itself is instant 0).           *)
(*  - An item value is a finite set of part identifiers; it stands for a   *)
(*    JSON array of distinct one-character strings (["A","B"]).            *)
(*    splitIntoParts is the identity and removePart filters one element    *)
(*    out, as in tests/storage.test.ts.                                    *)
(*  - A session id is a sequence of characters, << >> being ''.            *)
(*  - A physical key slsm[-sid][|s]||item is the record [sid, ss, item].   *)
(*  - A stored string is the record [w, v, t, p, c, bad]: w tells the       *)
(*    wrapped envelope {_v, t, p?} from the bare JSON value, c and bad are *)
(*    explained at BareEntry.                                              *)
(*  - Handlers are written in state-passing style over the record built by *)
(*    Cur; the field err is "quota" once QuotaExceededError propagates,    *)
(*    and Then(S, F) runs the next step F unless an error is propagating.  *)
(***************************************************************************)
EXTENDS Integers, Sequences, FiniteSets, TLC

VARIABLES
  items,                 \* options.items: item name -> ItemOptions
  sessionId,             \* what getSessionId() currently returns
  quota,                 \* capacity of the substrate, in bytes
  now,                   \* Date.now()
  localStorage,          \* physical key -> stored string
  sessionStorage,        \* physical key -> stored string
  ttlStates,             \* physical key -> TtlState (timer = due instant)
  ttlTimers,             \* armed setTimeout(runTtlCleanup, delay) timers
  itemStores,            \* physical key -> state of the t-state Store
  isInternalUpdate,      \* physical keys whose flag is true
  pendingSyncOperations, \* physical key -> pending deferred write
  syncTimers,            \* armed setTimeout(performWrite, delay) closures
  idleCleanup,           \* the start-up idle callback has not run yet
  lastGet,               \* observation: what the last get returned
  lastOp,                \* observation: the last public call and its outcome
  hist,                  \* observation: physical key -> last user mutation
  gone,                  \* observation: physical key -> how it was last removed
  tracked                \* observation: the items whose mutations hist keeps

vars == <<items, sessionId, quota, now, localStorage, sessionStorage,
          ttlStates, ttlTimers, itemStores, isInternalUpdate, pendingSyncOperations,
          syncTimers, idleCleanup, lastGet, lastOp, hist, gone, tracked>>

(***************************************************************************)
(* Program constants                                                       *)
(***************************************************************************)
MS_PER_MINUTE == 60000

\* the ceiling on the steps of one size-bounded pruning
MAX_ITERATIONS == 1000

(***************************************************************************)
(* Bounds of the model                                                     *)
(***************************************************************************)
\* the clock advances in steps of Step ms, at most MaxTicks times
Step == MS_PER_MINUTE \div 3
MaxTicks == 10
\* MaxTicks used by the quota runs, which need little time
MaxQuotaTicks == 3

MaxSyncTicks == 7

(***************************************************************************)
(* Small helpers                                                           *)
(***************************************************************************)
Put(f, k, v) == [x \in (DOMAIN f) \cup {k} |-> IF x = k THEN v ELSE f[x]]

Drop(f, k) == [x \in (DOMAIN f) \ {k} |-> f[x]]

Min2(a, b) == IF a <= b THEN a ELSE b

Max2(a, b) == IF a >= b THEN a ELSE b

MinOf(S) == CHOOSE x \in S : \A y \in S : x <= y

IsPrefix(p, s) == Len(p) <= Len(s) /\ SubSeq(s, 1, Len(p)) = p

NoTimer == -1

NoMeta == [updatedAt |-> -1, parts |-> << >>]

NoKey == [sid |-> << >>, ss |-> FALSE, item |-> ""]

NoTtl == [kind |-> "none", minutes |-> 0]

NoDelay == [type |-> "none", ms |-> 0, maxWaitMs |-> 0]

(***************************************************************************)
(* Envelope codec                                                          *)
(***************************************************************************)
toEnvelopeMinutes(timestamp) == (2 * timestamp + MS_PER_MINUTE) \div (2 * MS_PER_MINUTE)

fromEnvelopeMinutes(minuteStamp) == minuteStamp * MS_PER_MINUTE

getTtlDurationMs(ttl) == ttl.minutes * MS_PER_MINUTE

\* A stored string is modelled by what JSON.parse finds in it: w says that it
\* is an {_v, t, p} envelope around v, c is the format tag of a {_v, c}
\* compression wrapper ("none" without one), bad = "json" is a string that
\* JSON.parse rejects and bad = "inflate" a compressed _v that decompressFn
\* rejects.
BareEntry(value) ==
  [w |-> FALSE, v |-> value, t |-> 0, p |-> << >>, c |-> "none", bad |-> "none"]

createEnvelopePayload(value, metadata) ==
  [w |-> TRUE, v |-> value, t |-> toEnvelopeMinutes(metadata.updatedAt),
   p |-> [x \in DOMAIN metadata.parts |-> toEnvelopeMinutes(metadata.parts[x])],
   c |-> "none", bad |-> "none"]

\* the values that the schema of every item accepts: arrays over these parts
SchemaParts == {"A", "B", "C"}

\* items[key].schema.parse(value) reports no error
\* JSON values in full, for the items whose values are not arrays of
\* parts: a string, a number, an array of parts or an object
JStr(str) == [kind |-> "string", str |-> str]

JNum(n) == [kind |-> "number", n |-> n]

JArr(elems) == [kind |-> "array", elems |-> elems]

JObj(fields) == [kind |-> "object", fields |-> fields]

\* the objects and arrays accepted by the schema of an item of schema "json"
SchemaJson ==
  {JArr(elems) : elems \in SUBSET {"A", "B"}}
    \cup {JObj(fields) : fields \in {<< >>, [n |-> JNum(1)]}}
    \cup {JObj(own @@ [_v |-> inner]) :
            inner \in {JStr("x"), JNum(1), JArr({"A"})},
            own \in {t @@ c @@ parts :
                       t \in {<< >>, [t |-> JNum(1)], [t |-> JStr("x")]},
                       c \in {<< >>, [c |-> JStr("x")], [c |-> JNum(1)]},
                       parts \in {<< >>, [p |-> JObj([A |-> JNum(1)])]}}}

\* items[key].schema.parse(value) reports no error
schemaAccepts(key, value) ==
  IF items[key].schema = "numbers" THEN \A x \in value : x \in Nat
  ELSE IF items[key].schema = "json" THEN value \in SchemaJson
  ELSE value \subseteq SchemaParts

\* the undefined that parseStoredValue returns for a string it rejects
Unparsed == [ok |-> FALSE, value |-> {}, metadata |-> NoMeta]

\* a parseStoredValue that takes every string for a value of the schema
parseTrusting(key, raw) ==
  [ok |-> TRUE, value |-> raw.v,
   metadata |-> IF raw.w THEN [updatedAt |-> fromEnvelopeMinutes(raw.t), parts |-> << >>]
                ELSE NoMeta]

\* parseStoredValue: the value and the metadata carried by a stored string,
\* or Unparsed.  No item of the model has a migrate function, so
\* tryMigrateValue returns undefined for every value the schema rejects.
parseStoredValue(key, raw) ==
  IF raw.bad = "json" THEN Unparsed
  ELSE IF raw.c # "none" /\ items[key].compress = "none" THEN Unparsed
  ELSE IF raw.c # "none" /\ items[key].compress # raw.c THEN Unparsed
  ELSE IF raw.c # "none" /\ raw.bad = "inflate" THEN Unparsed
  ELSE IF ~schemaAccepts(key, raw.v) THEN Unparsed
  ELSE IF raw.w
    THEN [ok |-> TRUE, value |-> raw.v,
          metadata |-> [updatedAt |-> fromEnvelopeMinutes(raw.t),
                        parts |-> [x \in DOMAIN raw.p |-> fromEnvelopeMinutes(raw.p[x])]]]
    ELSE [ok |-> TRUE, value |-> raw.v, metadata |-> NoMeta]

\* rc_record(rc_number) accepts the value
IsNumberRecord(value) ==
  /\ value.kind = "object"
  /\ \A x \in DOMAIN value.fields : value.fields[x].kind = "number"

\* envelopeSchema.parse(parsed) reports no error: an object with _v, and
\* with t a number, p a record of numbers and c a string where present
envelopeSchemaAccepts(parsed) ==
  /\ parsed.kind = "object"
  /\ "_v" \in DOMAIN parsed.fields
  /\ "t" \in DOMAIN parsed.fields => parsed.fields.t.kind = "number"
  /\ "p" \in DOMAIN parsed.fields => IsNumberRecord(parsed.fields.p)
  /\ "c" \in DOMAIN parsed.fields => parsed.fields.c.kind = "string"

\* envelope.p as minute stamps
envelopeParts(parsed) ==
  IF "p" \in DOMAIN parsed.fields
    THEN [x \in DOMAIN parsed.fields.p.fields |-> parsed.fields.p.fields[x].n]
    ELSE << >>

\* a reading that takes every JSON value for a bare value
readAsBare(parsed) == BareEntry(parsed)

\* what parseStoredValue makes of the JSON value found in a stored string:
\* a compression wrapper when it passes envelopeSchema and has c, a TTL
\* envelope when it passes and has t, a bare value otherwise
readJson(parsed) ==
  IF envelopeSchemaAccepts(parsed) /\ "c" \in DOMAIN parsed.fields
    THEN [BareEntry(parsed.fields._v) EXCEPT !.c = parsed.fields.c.str]
  ELSE IF envelopeSchemaAccepts(parsed) /\ "t" \in DOMAIN parsed.fields
    THEN [w |-> TRUE, v |-> parsed.fields._v, t |-> parsed.fields.t.n,
          p |-> envelopeParts(parsed), c |-> "none", bad |-> "none"]
  ELSE BareEntry(parsed)

\* JSON.stringify(value).length for an array of one-character strings
JsonLen(value) == IF value = {} THEN 2 ELSE 1 + 4 * Cardinality(value)

\* length of the stored string; minute stamps are one digit in this model
EntryLen(raw) ==
  IF ~raw.w THEN JsonLen(raw.v)
  ELSE 13 + JsonLen(raw.v)
       + (IF DOMAIN raw.p = {} THEN 0 ELSE 6 + 6 * Cardinality(DOMAIN raw.p))

(***************************************************************************)
(* Key codec                                                               *)
(***************************************************************************)
\* getSessionId() returns false: no session is active
NoSession == <<"">>

\* a key resolution that gives every item its unscoped key
unscopedKey(key) == [sid |-> << >>, ss |-> items[key].useSessionStorage, item |-> key]

\* a key resolution that takes false for one more session id
keyOfAnySession(key) ==
  [sid |-> IF items[key].ignoreSessionId THEN << >> ELSE sessionId,
   ss |-> items[key].useSessionStorage,
   item |-> key]

\* false (NoKey) while no session is active, unless the item ignores the
\* session id
getLocalStorageItemKey(key) ==
  IF ~items[key].ignoreSessionId /\ sessionId = NoSession THEN NoKey
  ELSE [sid |-> IF items[key].ignoreSessionId THEN << >> ELSE sessionId,
        ss |-> items[key].useSessionStorage,
        item |-> key]

getItemKeyFromStorageKey(storageKey) == storageKey.item

getSyncDelayForKey(key) == items[key].syncDelay

\* storageKey.startsWith(`slsm-${currentSessionId}`)
StartsWithSession(storageKey, currentSessionId) ==
  storageKey.sid # << >> /\ IsPrefix(currentSessionId, storageKey.sid)

\* storageKey.startsWith(`slsm|`)
StartsWithNoSession(storageKey) == storageKey.sid = << >>

(***************************************************************************)
(* The state handed from one step of a handler to the next.  r holds the   *)
(* value returned by the last runTtlCleanup, cleaned the local variable of *)
(* cleanupAllTtlItems, ret the value that get returns; ev, wr and obs      *)
(* record what the handler did and arg what it was given.                  *)
(***************************************************************************)
Cur ==
  [ls |-> localStorage, ss |-> sessionStorage, ttl |-> ttlStates, tt |-> ttlTimers,
   stores |-> itemStores, flag |-> isInternalUpdate,
   pend |-> pendingSyncOperations, timers |-> syncTimers,
   err |-> "none", r |-> FALSE, cleaned |-> FALSE,
   ev |-> << >>, wr |-> << >>, obs |-> "none", arg |-> "none", ret |-> {}]

Ok(S) == S.err = "none"

Then(S, F(_)) == IF Ok(S) THEN F(S) ELSE S

getItem(S, isSession, storageKey) ==
  IF isSession THEN S.ss[storageKey] ELSE S.ls[storageKey]

hasItem(S, isSession, storageKey) ==
  IF isSession THEN storageKey \in DOMAIN S.ss ELSE storageKey \in DOMAIN S.ls

removeItem(S, isSession, storageKey) ==
  IF isSession THEN [S EXCEPT !.ss = Drop(@, storageKey)]
  ELSE [S EXCEPT !.ls = Drop(@, storageKey)]

\* key.startsWith('slsm'): a key of the namespace is a record with an item
\* field; anything else in the storage belongs to other code of the page
IsNamespaced(storageKey) == "item" \in DOMAIN storageKey

getStorageItemKeys(storage, except) ==
  {k \in DOMAIN storage : IsNamespaced(k)} \ {except}

RECURSIVE SumLen(_)
SumLen(storage) ==
  IF DOMAIN storage = {} THEN 0
  ELSE LET k == CHOOSE x \in DOMAIN storage : TRUE
       IN EntryLen(storage[k]) + SumLen(Drop(storage, k))

\* setItem(storageKey, raw) raises QuotaExceededError iff the total of both
\* storages would exceed the quota
checkQuotaError(S, isSession, storageKey, raw) ==
  SumLen(IF isSession THEN S.ls ELSE Put(S.ls, storageKey, raw))
    + SumLen(IF isSession THEN Put(S.ss, storageKey, raw) ELSE S.ss) > quota

\* a successful storage.setItem, with the write recorded in wr
setItem(S, isSession, storageKey, raw, source) ==
  IF isSession
    THEN [S EXCEPT !.ss = Put(@, storageKey, raw),
                   !.wr = Append(@, [key |-> storageKey, source |-> source])]
    ELSE [S EXCEPT !.ls = Put(@, storageKey, raw),
                   !.wr = Append(@, [key |-> storageKey, source |-> source])]

\* observation: one eviction made by quota recovery for the write of raw
\* under storageKey (or the TTL sweep of phase 1, with no victim), with the
\* storages it saw
logEviction(S, victim, phase, storageKey, raw, isSession, source) ==
  [S EXCEPT !.ev = Append(@, [victim |-> victim, phase |-> phase,
                              ls |-> S.ls, ss |-> S.ss, key |-> storageKey,
                              raw |-> raw, isSession |-> isSession,
                              source |-> source])]

(***************************************************************************)
(* TTL engine: pure parts                                                  *)
(***************************************************************************)
synthesizeMetadataFromValue(value, ttl, t) ==
  IF ttl.kind = "parts"
    THEN [updatedAt |-> t, parts |-> [x \in value |-> t]]
    ELSE [updatedAt |-> t, parts |-> << >>]

\* the parts whose time is up
expiredPartsOf(metadata, ttl, t) ==
  {x \in DOMAIN metadata.parts : t - metadata.parts[x] >= getTtlDurationMs(ttl)}

evaluateTtl(value, metadata, ttl, t) ==
  IF ttl.kind # "parts"
    THEN [expired |-> t - metadata.updatedAt >= getTtlDurationMs(ttl),
          changed |-> FALSE, value |-> value, metadata |-> metadata]
    ELSE IF expiredPartsOf(metadata, ttl, t) = {}
      THEN [expired |-> FALSE, changed |-> FALSE, value |-> value, metadata |-> metadata]
      ELSE [expired |-> FALSE, changed |-> TRUE,
            value |-> value \ expiredPartsOf(metadata, ttl, t),
            metadata |-> [updatedAt |-> metadata.updatedAt,
                          parts |-> [x \in (DOMAIN metadata.parts)
                                             \ expiredPartsOf(metadata, ttl, t)
                                       |-> metadata.parts[x]]]]

\* the metadata of a parsed entry, synthesized as of t for a bare one
metadataOrSynthesized(parsed, ttl, t) ==
  IF parsed.metadata = NoMeta
    THEN synthesizeMetadataFromValue(parsed.value, ttl, t)
    ELSE parsed.metadata

\* a setTtlState or clearTtlState that leaves the earlier timer armed
keepTimer(S, storageKey) == S.tt

\* the armed timers after clearTimeout(existing.timerId)
clearedTimer(S, storageKey) ==
  IF storageKey \in DOMAIN S.ttl
    THEN S.tt \ {[storageKey |-> storageKey, due |-> S.ttl[storageKey].timer]}
    ELSE S.tt

\* the armed timers after setTimeout(runTtlCleanup, delay), if one is armed
armedTimer(timers, storageKey, due) ==
  IF due = NoTimer THEN timers ELSE timers \cup {[storageKey |-> storageKey, due |-> due]}

clearTtlState(S, storageKey) ==
  [S EXCEPT !.ttl = Drop(@, storageKey), !.tt = clearedTimer(S, storageKey)]

\* the instant of the timer armed by scheduleNextTtlCheck, or NoTimer
scheduleNextTtlCheck(key, metadata) ==
  IF items[key].ttl.kind = "none" THEN NoTimer
  ELSE IF items[key].ttl.kind = "parts"
    THEN IF DOMAIN metadata.parts = {} THEN NoTimer
         ELSE now + Max2(MinOf({metadata.parts[x] + getTtlDurationMs(items[key].ttl) :
                                  x \in DOMAIN metadata.parts}) - now, 0)
    ELSE now + Max2(metadata.updatedAt + getTtlDurationMs(items[key].ttl) - now, 0)

setTtlState(S, storageKey, key, metadata) ==
  IF metadata = NoMeta
    THEN [S EXCEPT !.ttl = Drop(@, storageKey), !.tt = clearedTimer(S, storageKey)]
    ELSE [S EXCEPT !.ttl = Put(@, storageKey,
            [key |-> key, updatedAt |-> metadata.updatedAt, parts |-> metadata.parts,
             timer |-> scheduleNextTtlCheck(key, metadata)]),
                   !.tt = armedTimer(clearedTimer(S, storageKey), storageKey,
                                     scheduleNextTtlCheck(key, metadata))]

\* a cancelPendingSync that leaves the record and its timer in place
keepPendingSync(S, storageKey) == S

cancelPendingSync(S, storageKey) ==
  IF storageKey \in DOMAIN S.pend
    THEN [S EXCEPT !.timers = @ \ {S.pend[storageKey].timer},
                   !.pend = Drop(@, storageKey)]
    ELSE S

\* itemOptions.autoPrune(value): the configured predicate prune keeps the
\* first `keep` elements of the array (value.slice(0, keep))
autoPrune(key, value) ==
  IF items[key].autoPrune.on THEN {x \in value : x <= items[key].autoPrune.keep}
  ELSE value

\* performPruneStep(value) of the configured step function.  Above `floor`
\* elements it returns value.slice(0, -1); from there on it returns a copy
\* of its input ("copy"), its input itself ("same") or a longer array
\* ("grow").  same tells whether the result is the input object (===).
\* The arrays pruned in this model are [1, 2, ..., n], so that the last
\* element is the number of elements.
performPruneStep(step, value) ==
  IF Cardinality(value) > step.floor
    THEN [same |-> FALSE, value |-> value \ {Cardinality(value)}]
  ELSE IF step.atFloor = "same" THEN [same |-> TRUE, value |-> value]
  ELSE IF step.atFloor = "grow"
    THEN [same |-> FALSE, value |-> value \cup {Cardinality(value) + 1}]
  ELSE [same |-> FALSE, value |-> value]

\* the local variables of applyAutoPrune when its while loop is entered:
\* value is the argument, nextValue the value after the predicate prune; calls
\* counts the calls of the step function, log is the diagnostic printed and
\* done tells that the loop was left
enterLoop(value, nextValue) ==
  [value |-> value, nextValue |-> nextValue, previousSize |-> JsonLen(nextValue),
   iterations |-> 0, calls |-> 0, log |-> "none", done |-> FALSE]

\* the rest of a pass of the while loop once performPruneStep returned pruned
afterPruneStep(L, pruned) ==
  IF pruned.same THEN [L EXCEPT !.calls = @ + 1, !.done = TRUE]
  ELSE IF JsonLen(pruned.value) >= L.previousSize
    THEN [L EXCEPT !.calls = @ + 1, !.nextValue = L.value,
                   !.log = "did not decrease", !.done = TRUE]
  ELSE [L EXCEPT !.calls = @ + 1, !.nextValue = pruned.value,
                 !.previousSize = JsonLen(pruned.value), !.iterations = @ + 1]

\* a pass of the while loop without the ceiling on its iterations
passWithoutCeiling(bySize, L) ==
  IF L.done THEN L
  ELSE IF JsonLen(L.nextValue) <= bySize.maxBytes THEN [L EXCEPT !.done = TRUE]
  ELSE afterPruneStep(L, performPruneStep(bySize.step, L.nextValue))

\* one pass of the while loop of applyAutoPrune: its condition and its body
loopPass(bySize, L) ==
  IF L.done THEN L
  ELSE IF JsonLen(L.nextValue) <= bySize.maxBytes THEN [L EXCEPT !.done = TRUE]
  ELSE IF L.iterations >= MAX_ITERATIONS
    THEN [L EXCEPT !.log = "max iterations", !.done = TRUE]
  ELSE afterPruneStep(L, performPruneStep(bySize.step, L.nextValue))

\* `passes` passes of the while loop, one after the other (the first half of
\* them, then the rest)
RECURSIVE loopPasses(_, _, _)
loopPasses(bySize, L, passes) ==
  IF L.done \/ passes = 0 THEN L
  ELSE IF passes = 1 THEN loopPass(bySize, L)
  ELSE loopPasses(bySize, loopPasses(bySize, L, passes \div 2), passes - passes \div 2)

\* applyAutoPrune with what it did.  The pass that follows MAX_ITERATIONS
\* steps leaves the loop, so MAX_ITERATIONS + 1 passes run it to its end;
\* done tells that the loop did end.
autoPruneRun(key, value) ==
  IF items[key].autoPruneBySize.on
    THEN loopPasses(items[key].autoPruneBySize,
                    enterLoop(value, autoPrune(key, value)), MAX_ITERATIONS + 1)
    ELSE [value |-> value, nextValue |-> autoPrune(key, value), previousSize |-> 0,
          iterations |-> 0, calls |-> 0, log |-> "none", done |-> TRUE]

applyAutoPrune(key, value) == autoPruneRun(key, value).nextValue

\* the user-supplied callback of the item that throws whenever it is called
Throws(key, callback) == items[key].throwing = callback

\* an exception leaves the function that is running
raise(S) == [S EXCEPT !.err = "callback"]

\* applyAutoPrune(key, value) calls a callback that throws: autoPrune, or
\* performPruneStep once the while loop is entered
pruneThrows(key, value) ==
  \/ items[key].autoPrune.on /\ Throws(key, "autoPrune")
  \/ /\ items[key].autoPruneBySize.on
     /\ Throws(key, "performPruneStep")
     /\ JsonLen(autoPrune(key, value)) > items[key].autoPruneBySize.maxBytes

\* the TTL evaluation of a parsed entry calls a callback that throws:
\* splitIntoParts when the metadata is synthesized, removePart when a part
\* has run out
ttlThrows(key, parsed, t) ==
  /\ items[key].ttl.kind = "parts"
  /\ \/ parsed.metadata = NoMeta /\ Throws(key, "splitIntoParts")
     \/ /\ Throws(key, "removePart")
        /\ expiredPartsOf(metadataOrSynthesized(parsed, items[key].ttl, t),
                          items[key].ttl, t) # {}

\* isInternalUpdate.set(storageKey, true)
markInternalUpdate(S, storageKey) == [S EXCEPT !.flag = @ \cup {storageKey}]

\* the new state of the store cached under storageKey
putStoreState(S, storageKey, value) == [S EXCEPT !.stores = Put(@, storageKey, value)]

(***************************************************************************)
(* The engine.  The handlers call each other, so they are declared first.  *)
(***************************************************************************)
RECURSIVE runTtlCleanup(_, _, _)
RECURSIVE persistValue(_, _, _, _, _, _)
RECURSIVE performWrite(_, _, _, _, _, _)
RECURSIVE writeToStorage(_, _, _, _, _, _)
RECURSIVE handleQuotaExceeded(_, _, _, _, _, _)
RECURSIVE cleanupSweep(_, _)
RECURSIVE deleteAllByStorageKey(_, _, _, _, _, _)
RECURSIVE evictLoop(_, _, _, _, _)
RECURSIVE getStore(_, _)
RECURSIVE storeSetState(_, _, _, _, _)
RECURSIVE deleteItemByStorageKey(_, _)

\* getInitialValue once the entry is parsed and its TTL evaluated
initialFromEvaluation(S, key, storageKey, synthesized, evaluation, metadata) ==
  IF evaluation.expired
    THEN [s |-> clearTtlState(removeItem(S, items[key].useSessionStorage, storageKey),
                              storageKey),
          value |-> items[key].default, metadata |-> NoMeta, shouldPersist |-> FALSE]
    ELSE IF evaluation.changed
      THEN [s |-> S, value |-> evaluation.value, metadata |-> evaluation.metadata,
            shouldPersist |-> TRUE]
      ELSE [s |-> S, value |-> evaluation.value, metadata |-> metadata,
            shouldPersist |-> synthesized]

initialFromParsed(S, key, storageKey, parsed) ==
  IF ~parsed.ok
    THEN [s |-> S, value |-> items[key].default, metadata |-> NoMeta,
          shouldPersist |-> FALSE]
  ELSE IF items[key].ttl.kind = "none"
    THEN [s |-> S, value |-> parsed.value, metadata |-> NoMeta, shouldPersist |-> FALSE]
  ELSE IF ttlThrows(key, parsed, now)
    THEN [s |-> raise(S), value |-> items[key].default, metadata |-> NoMeta,
          shouldPersist |-> FALSE]
    ELSE initialFromEvaluation(S, key, storageKey, parsed.metadata = NoMeta,
           evaluateTtl(parsed.value, metadataOrSynthesized(parsed, items[key].ttl, now),
                       items[key].ttl, now),
           metadataOrSynthesized(parsed, items[key].ttl, now))

\* getInitialValue: the first read of the physical entry of an item
getInitialValue(S, key, storageKey) ==
  IF ~hasItem(S, items[key].useSessionStorage, storageKey)
    THEN [s |-> S, value |-> items[key].default, metadata |-> NoMeta,
          shouldPersist |-> FALSE]
    ELSE initialFromParsed(S, key, storageKey,
           parseStoredValue(key, getItem(S, items[key].useSessionStorage, storageKey)))

\* the load-time write of getStore: synthesized metadata, or a pruned value
persistInitial(S, key, storageKey, initialState, metadata, shouldPersist) ==
  IF shouldPersist
    THEN persistValue(S, key, initialState, storageKey, metadata, "cleanup")
    ELSE S

\* the store creation of getStore from the result of getInitialValue
createStore(initial, key, storageKey, initialState) ==
  persistInitial(
    IF items[key].ttl.kind # "none" /\ initial.metadata # NoMeta
      THEN setTtlState(putStoreState(initial.s, storageKey, initialState),
                       storageKey, key, initial.metadata)
      ELSE putStoreState(initial.s, storageKey, initialState),
    key, storageKey, initialState, initial.metadata,
    \/ (items[key].ttl.kind # "none" /\ initial.metadata # NoMeta /\ initial.shouldPersist)
    \/ initialState # initial.value)

\* getStore: the cached store of the item's current physical key, created
\* (with its load-time clean-up) on first access
getStore(S, key) ==
  IF key \notin DOMAIN items THEN [S EXCEPT !.err = "type"]
  ELSE IF getLocalStorageItemKey(key) = NoKey THEN S
  ELSE IF getLocalStorageItemKey(key) \in DOMAIN S.stores THEN S
  ELSE IF ~Ok(getInitialValue(S, key, getLocalStorageItemKey(key)).s)
    THEN getInitialValue(S, key, getLocalStorageItemKey(key)).s
  ELSE IF pruneThrows(key, getInitialValue(S, key, getLocalStorageItemKey(key)).value)
    THEN raise(getInitialValue(S, key, getLocalStorageItemKey(key)).s)
  ELSE createStore(getInitialValue(S, key, getLocalStorageItemKey(key)), key,
                   getLocalStorageItemKey(key),
                   applyAutoPrune(key, getInitialValue(S, key, getLocalStorageItemKey(key)).value))

\* the middleware's handling of a user update whose pruned value is prunedValue
middlewarePersist(S, storageKey, key, prunedValue) ==
  IF prunedValue = items[key].default
    THEN putStoreState(
           cancelPendingSync(
             clearTtlState(removeItem(S, items[key].useSessionStorage, storageKey),
                           storageKey),
             storageKey),
           storageKey, items[key].default)
    ELSE Then(persistValue(S, key, prunedValue, storageKey, NoMeta, "mutation"),
              LAMBDA T : putStoreState(T, storageKey, prunedValue))

\* a store without the middleware: the next state is taken as it is
setStateUnobserved(S, storageKey, key, next, equalityCheck) ==
  putStoreState(S, storageKey, next)

\* store.setState(next, {equalityCheck}) through the middleware that getStore
\* registers: an internal update passes as it is, a user update is pruned,
\* deleted when it equals the default, or persisted
storeSetState(S, storageKey, key, next, equalityCheck) ==
  IF storageKey = NoKey THEN S
  ELSE IF equalityCheck /\ next = S.stores[storageKey] THEN S
  ELSE IF storageKey \in S.flag
    THEN putStoreState([S EXCEPT !.flag = @ \ {storageKey}], storageKey, next)
  ELSE IF pruneThrows(key, next) THEN raise(S)
  ELSE middlewarePersist(S, storageKey, key, applyAutoPrune(key, next))

\* isInternalUpdate.set(flagKey, true); getStore(key).setState(value)
internalSetState(S, flagKey, key, value, equalityCheck) ==
  Then(getStore(markInternalUpdate(S, flagKey), key),
       LAMBDA T : storeSetState(T, getLocalStorageItemKey(key), key, value, equalityCheck))

\* runTtlCleanup on an expired whole item
ttlExpire(S, storageKey, itemKey) ==
  IF getLocalStorageItemKey(itemKey) = storageKey
    THEN internalSetState(S, storageKey, itemKey, items[itemKey].default, FALSE)
    ELSE S

\* runTtlCleanup on an item that lost expired parts
ttlRewrite(S, storageKey, itemKey, evaluation) ==
  IF getLocalStorageItemKey(itemKey) = storageKey
    THEN Then(internalSetState(S, storageKey, itemKey, evaluation.value, TRUE),
              LAMBDA T : persistValue(T, itemKey, evaluation.value, storageKey,
                                      evaluation.metadata, "cleanup"))
    ELSE Then(writeToStorage(S, storageKey,
                createEnvelopePayload(evaluation.value, evaluation.metadata),
                storageKey.ss, TRUE, "cleanup"),
              LAMBDA T : setTtlState(T, storageKey, itemKey, evaluation.metadata))

ttlApply(S, storageKey, itemKey, evaluation, metadata) ==
  IF evaluation.expired
    THEN [ttlExpire(clearTtlState(removeItem(S, storageKey.ss, storageKey), storageKey),
                    storageKey, itemKey) EXCEPT !.r = TRUE]
    ELSE IF evaluation.changed
      THEN [ttlRewrite(S, storageKey, itemKey, evaluation) EXCEPT !.r = TRUE]
      ELSE [setTtlState(S, storageKey, itemKey, metadata) EXCEPT !.r = FALSE]

ttlParsed(S, storageKey, itemKey, parsed, t) ==
  IF ~parsed.ok THEN [S EXCEPT !.r = FALSE]
  ELSE IF ttlThrows(itemKey, parsed, t) THEN raise(S)
  ELSE ttlApply(S, storageKey, itemKey,
                evaluateTtl(parsed.value,
                            metadataOrSynthesized(parsed, items[itemKey].ttl, t),
                            items[itemKey].ttl, t),
                metadataOrSynthesized(parsed, items[itemKey].ttl, t))

\* runTtlCleanup: expiry evaluation of one physical key; its result is in r
runTtlCleanup(S, storageKey, t) ==
  IF getItemKeyFromStorageKey(storageKey) \notin DOMAIN items
    THEN [S EXCEPT !.err = "type"]
  ELSE IF items[getItemKeyFromStorageKey(storageKey)].ttl.kind = "none"
    THEN [S EXCEPT !.r = FALSE]
    ELSE IF ~hasItem(S, storageKey.ss, storageKey)
      THEN [clearTtlState(S, storageKey) EXCEPT !.r = FALSE]
      ELSE ttlParsed(S, storageKey, getItemKeyFromStorageKey(storageKey),
                     parseStoredValue(getItemKeyFromStorageKey(storageKey),
                                      getItem(S, storageKey.ss, storageKey)), t)

\* cleaned = cleaned || runTtlCleanup(storageKey, now)
sweepStep(T) == [T EXCEPT !.cleaned = @ \/ T.r]

\* one sweep of cleanupAllTtlItems over the keys of a storage
cleanupSweep(S, keys) ==
  IF keys = {} \/ ~Ok(S) THEN S
  ELSE cleanupSweep(sweepStep(runTtlCleanup(S, CHOOSE x \in keys : TRUE, now)),
                    keys \ {CHOOSE x \in keys : TRUE})

sweepSessionStorage(L, except) == cleanupSweep(L, getStorageItemKeys(L.ss, except))

cleanupAllTtlItems(S, except) ==
  sweepSessionStorage(
    cleanupSweep([S EXCEPT !.cleaned = FALSE], getStorageItemKeys(S.ls, except)),
    except)

\* a sweep that looks at the entries of configured items only
sweepKnownOnly(S, storageKey, isSession) ==
  IF getItemKeyFromStorageKey(storageKey) \notin DOMAIN items THEN S
  ELSE runTtlCleanup(S, storageKey, now)

\* one key of sweepStorage: the entry of an item that is not configured is
\* removed, the entry of a TTL item goes through runTtlCleanup
sweepStorageKey(S, storageKey, isSession) ==
  IF getItemKeyFromStorageKey(storageKey) \notin DOMAIN items
    THEN clearTtlState(removeItem(S, isSession, storageKey), storageKey)
    ELSE runTtlCleanup(S, storageKey, now)

RECURSIVE sweepStorage(_, _, _)
sweepStorage(S, keys, isSession) ==
  IF keys = {} \/ ~Ok(S) THEN S
  ELSE sweepStorage(sweepStorageKey(S, CHOOSE x \in keys : TRUE, isSession),
                    keys \ {CHOOSE x \in keys : TRUE}, isSession)

sweepSessionKeys(L) == sweepStorage(L, getStorageItemKeys(L.ss, NoKey), TRUE)

\* handleIdleCleanup: sweepStorage(localStorage); sweepStorage(sessionStorage)
handleIdleCleanup(S) ==
  sweepSessionKeys(sweepStorage(S, getStorageItemKeys(S.ls, NoKey), FALSE))

\* the end of performWrite, after the write went through
finishWrite(S, key, storageKey, metadata) ==
  IF items[key].ttl.kind # "none" /\ metadata # NoMeta
    THEN [setTtlState(S, storageKey, key, metadata) EXCEPT !.pend = Drop(@, storageKey)]
    ELSE [clearTtlState(S, storageKey) EXCEPT !.pend = Drop(@, storageKey)]

\* the body of performWrite, the closure that persistValue runs or defers
performWrite(S, key, value, storageKey, metadata, source) ==
  Then(writeToStorage(S, storageKey,
         IF items[key].ttl.kind # "none" /\ metadata # NoMeta
           THEN createEnvelopePayload(value, metadata)
           ELSE BareEntry(value),
         items[key].useSessionStorage, source = "cleanup", source),
       LAMBDA T : finishWrite(T, key, storageKey, metadata))

\* an anchor that moves with every mutation
firstScheduledAtNow(S, storageKey) == now

\* the anchor of the max-wait ceiling of a deferred write
firstScheduledAtOf(S, storageKey) ==
  IF storageKey \in DOMAIN S.pend THEN S.pend[storageKey].firstScheduledAt ELSE now

\* every part of value stamped with now
stampPartsAfresh(S, value, storageKey) == [x \in value |-> now]

\* the parts of value, each with its earlier stamp or with now
stampParts(S, value, storageKey) ==
  [x \in value |->
     IF storageKey \in DOMAIN S.ttl /\ x \in DOMAIN S.ttl[storageKey].parts
       THEN S.ttl[storageKey].parts[x] ELSE now]

\* the TTL metadata stamped by persistValue when none is handed in
stampMetadata(S, key, value, storageKey) ==
  IF items[key].ttl.kind = "none" THEN NoMeta
  ELSE IF items[key].ttl.kind = "parts"
    THEN [updatedAt |-> now, parts |-> stampParts(S, value, storageKey)]
    ELSE [updatedAt |-> now, parts |-> << >>]

\* the delay of the debounce timer: ms, capped by what is left of maxWaitMs
debounceDelay(syncDelayConfig, firstScheduledAt) ==
  IF syncDelayConfig.maxWaitMs # 0
    THEN Min2(syncDelayConfig.ms, syncDelayConfig.maxWaitMs - (now - firstScheduledAt))
    ELSE syncDelayConfig.ms

\* setTimeout(performWrite, delay) or requestIdleCallback(performWrite,
\* timeoutMs), and the pendingSyncOperations record
armSyncTimer(S, storageKey, timer, firstScheduledAt) ==
  [S EXCEPT !.timers = @ \cup {timer},
            !.pend = Put(@, storageKey,
                         [timer |-> timer, value |-> timer.value,
                          metadata |-> timer.metadata,
                          firstScheduledAt |-> firstScheduledAt])]

\* the earliest instant at which the deferred write may run: an idle
\* callback may run as soon as the handler has returned
deferredFrom(syncDelayConfig, firstScheduledAt) ==
  IF syncDelayConfig.type = "debounce"
    THEN now + debounceDelay(syncDelayConfig, firstScheduledAt)
    ELSE now

\* the instant at which it runs at the latest: the end of the debounce delay,
\* or the timeout handed to requestIdleCallback
deferredUntil(syncDelayConfig, firstScheduledAt) ==
  IF syncDelayConfig.type = "debounce"
    THEN now + debounceDelay(syncDelayConfig, firstScheduledAt)
    ELSE now + syncDelayConfig.ms

\* persistValue once the metadata and the sync-delay policy are known
scheduleWrite(S, key, value, storageKey, metadata, source, syncDelayConfig) ==
  IF \/ syncDelayConfig.type = "none"
     \/ /\ syncDelayConfig.type = "debounce"
        /\ syncDelayConfig.maxWaitMs # 0
        /\ syncDelayConfig.maxWaitMs - (now - firstScheduledAtOf(S, storageKey)) <= 0
    THEN performWrite(IF syncDelayConfig.type = "none" THEN S
                      ELSE cancelPendingSync(S, storageKey),
                      key, value, storageKey, metadata, source)
    ELSE armSyncTimer(cancelPendingSync(S, storageKey), storageKey,
           [key |-> key, storageKey |-> storageKey,
            due |-> deferredFrom(syncDelayConfig, firstScheduledAtOf(S, storageKey)),
            force |-> deferredUntil(syncDelayConfig, firstScheduledAtOf(S, storageKey)),
            value |-> value, metadata |-> metadata],
           firstScheduledAtOf(S, storageKey))

\* a persistValue that applies the sync delay of the item to every write
persistDeferringAll(S, key, value, storageKey, metadataOverride, source) ==
  scheduleWrite(S, key, value, storageKey,
    IF metadataOverride # NoMeta THEN metadataOverride
    ELSE stampMetadata(S, key, value, storageKey),
    source, getSyncDelayForKey(key))

persistValue(S, key, value, storageKey, metadataOverride, source) ==
  IF /\ metadataOverride = NoMeta
     /\ items[key].ttl.kind = "parts"
     /\ Throws(key, "splitIntoParts")
    THEN raise(S)
  ELSE scheduleWrite(S, key, value, storageKey,
         IF metadataOverride # NoMeta THEN metadataOverride
         ELSE stampMetadata(S, key, value, storageKey),
         source,
         IF source = "mutation" THEN getSyncDelayForKey(key) ELSE NoDelay)

\* getLocalStorageItemKey reads items[itemKey].ignoreSessionId, a TypeError
\* when the item of the key is not configured, after the entry is removed
deleteItemByStorageKey(S, storageKey) ==
  IF getItemKeyFromStorageKey(storageKey) \notin DOMAIN items
    THEN [cancelPendingSync(
            clearTtlState(removeItem(removeItem(S, TRUE, storageKey), FALSE, storageKey),
                          storageKey),
            storageKey) EXCEPT !.err = "type"]
  ELSE IF getLocalStorageItemKey(getItemKeyFromStorageKey(storageKey)) = storageKey
    THEN internalSetState(
           cancelPendingSync(
             clearTtlState(removeItem(removeItem(S, TRUE, storageKey), FALSE, storageKey),
                           storageKey),
             storageKey),
           storageKey, getItemKeyFromStorageKey(storageKey),
           items[getItemKeyFromStorageKey(storageKey)].default, FALSE)
    ELSE cancelPendingSync(
           clearTtlState(removeItem(removeItem(S, TRUE, storageKey), FALSE, storageKey),
                         storageKey),
           storageKey)

\* for (const itemKey of sessionStorageKeys) deleteItemByStorageKey(itemKey)
deleteAllByStorageKey(S, keys, storageKey, raw, isSession, source) ==
  IF keys = {} \/ ~Ok(S) THEN S
  ELSE deleteAllByStorageKey(
         deleteItemByStorageKey(
           logEviction(S, CHOOSE x \in keys : TRUE, 2, storageKey, raw, isSession, source),
           CHOOSE x \in keys : TRUE),
         keys \ {CHOOSE x \in keys : TRUE}, storageKey, raw, isSession, source)

getItemPriority(itemStorageKey) ==
  IF items[getItemKeyFromStorageKey(itemStorageKey)].priority = -1 THEN 0
  ELSE items[getItemKeyFromStorageKey(itemStorageKey)].priority

\* a sort by size that leaves the priority out
sortBySizeOnly(S, storageKeys) ==
  CHOOSE k \in storageKeys :
    \A o \in storageKeys : EntryLen(S.ls[k]) >= EntryLen(S.ls[o])

\* the head of sortBy(storageKeys, key => [priority, -size])
sortByPriorityAndSize(S, storageKeys) ==
  IF Cardinality(storageKeys) = 1 THEN CHOOSE k \in storageKeys : TRUE
  ELSE CHOOSE k \in storageKeys :
         \A o \in storageKeys :
           \/ getItemPriority(k) < getItemPriority(o)
           \/ /\ getItemPriority(k) = getItemPriority(o)
              /\ EntryLen(S.ls[k]) >= EntryLen(S.ls[o])

\* a filter that finds no entry of another session
noDifferentSessions(localStorageKeys) == {}

\* localStorageKeys.filter(...): the entries of other sessions
itemsInDifferentSessions(localStorageKeys) ==
  {k \in localStorageKeys : ~StartsWithSession(k, sessionId) /\ ~StartsWithNoSession(k)}

\* items[itemKey].priority is read off undefined, a TypeError, when a key
\* that sortByPriorityAndSize compares belongs to no configured item; a
\* single key is compared with nothing
priorityThrows(storageKeys) ==
  /\ Cardinality(storageKeys) > 1
  /\ \E k \in storageKeys : getItemKeyFromStorageKey(k) \notin DOMAIN items

\* the keys that the next round of the eviction loop sorts
sortedKeys(localStorageKeys) ==
  IF itemsInDifferentSessions(localStorageKeys) # {}
    THEN itemsInDifferentSessions(localStorageKeys)
    ELSE localStorageKeys

\* the entry that the next round of the eviction loop removes
nextVictim(S, localStorageKeys) ==
  IF itemsInDifferentSessions(localStorageKeys) # {}
    THEN sortByPriorityAndSize(S, itemsInDifferentSessions(localStorageKeys))
    ELSE sortByPriorityAndSize(S, localStorageKeys)

\* if (tryOperation()) return; else go round the loop again
retryOrEvict(S, storageKey, raw, isSession, source) ==
  IF ~Ok(S) THEN S
  ELSE IF ~checkQuotaError(S, isSession, storageKey, raw)
    THEN setItem(S, isSession, storageKey, raw, source)
    ELSE evictLoop(S, storageKey, raw, isSession, source)

evictVictim(S, victim, storageKey, raw, isSession, source) ==
  deleteItemByStorageKey(logEviction(S, victim, 3, storageKey, raw, isSession, source),
                         victim)

\* a loop that gives up after its first eviction
evictOnceThenThrow(S, storageKey, raw, isSession, source) ==
  IF getStorageItemKeys(S.ls, storageKey) = {} THEN [S EXCEPT !.err = "quota"]
  ELSE [evictVictim(S, nextVictim(S, getStorageItemKeys(S.ls, storageKey)),
                    storageKey, raw, isSession, source) EXCEPT !.err = "quota"]

\* the while (true) loop of handleQuotaExceeded, ending in throw error
evictLoop(S, storageKey, raw, isSession, source) ==
  IF getStorageItemKeys(S.ls, storageKey) = {} THEN [S EXCEPT !.err = "quota"]
  ELSE IF priorityThrows(sortedKeys(getStorageItemKeys(S.ls, storageKey)))
    THEN [S EXCEPT !.err = "type"]
  ELSE retryOrEvict(evictVictim(S, nextVictim(S, getStorageItemKeys(S.ls, storageKey)),
                                storageKey, raw, isSession, source),
                    storageKey, raw, isSession, source)

\* phase 2: every tab-scoped entry goes, then the write is tried again
sessionPhase(S, sessionStorageKeys, storageKey, raw, isSession, source) ==
  IF sessionStorageKeys = {} THEN evictLoop(S, storageKey, raw, isSession, source)
  ELSE retryOrEvict(deleteAllByStorageKey(S, sessionStorageKeys, storageKey, raw,
                                          isSession, source),
                    storageKey, raw, isSession, source)

\* after phase 1: the write is tried again if the sweep cleaned something
afterTtlPhase(S, swept, storageKey, raw, isSession, source) ==
  IF ~Ok(S) THEN S
  ELSE IF swept /\ S.cleaned /\ ~checkQuotaError(S, isSession, storageKey, raw)
    THEN setItem(S, isSession, storageKey, raw, source)
    ELSE sessionPhase(S, getStorageItemKeys(S.ss, storageKey),
                      storageKey, raw, isSession, source)

\* a recovery that never runs the TTL sweep
handleQuotaExceededNoSweep(S, storageKey, raw, isSession, skipTtlCleanup, source) ==
  afterTtlPhase(S, FALSE, storageKey, raw, isSession, source)

handleQuotaExceeded(S, storageKey, raw, isSession, skipTtlCleanup, source) ==
  afterTtlPhase(IF skipTtlCleanup THEN S
                ELSE cleanupAllTtlItems(
                       logEviction(S, NoKey, 1, storageKey, raw, isSession, source),
                       storageKey),
                ~skipTtlCleanup, storageKey, raw, isSession, source)

\* the string that the write closure of writeToStorage stores for raw: with a
\* compression configured, raw inside a {_v, c} wrapper
compressed(storageKey, raw) ==
  IF items[getItemKeyFromStorageKey(storageKey)].compress = "none" THEN raw
  ELSE [raw EXCEPT !.c = items[getItemKeyFromStorageKey(storageKey)].compress]

writeToStorage(S, storageKey, raw, isSession, skipTtlCleanup, source) ==
  IF ~checkQuotaError(S, isSession, storageKey, compressed(storageKey, raw))
    THEN setItem(S, isSession, storageKey, compressed(storageKey, raw), source)
    ELSE handleQuotaExceeded(S, storageKey, compressed(storageKey, raw), isSession,
                             skipTtlCleanup, source)

(***************************************************************************)
(* Item store facade                                                       *)
(***************************************************************************)
\* a deleteItem that forgets the pending deferred write
deleteItemKeepPending(S, key) ==
  internalSetState(
    clearTtlState(removeItem(S, items[key].useSessionStorage, getLocalStorageItemKey(key)),
                  getLocalStorageItemKey(key)),
    getLocalStorageItemKey(key), key, items[key].default, FALSE)

deleteItem(S, key) ==
  IF getLocalStorageItemKey(key) = NoKey THEN S
  ELSE internalSetState(
         cancelPendingSync(
           clearTtlState(removeItem(S, items[key].useSessionStorage,
                                    getLocalStorageItemKey(key)),
                         getLocalStorageItemKey(key)),
           getLocalStorageItemKey(key)),
         getLocalStorageItemKey(key), key, items[key].default, FALSE)

\* Object identity.  The array that the caller of set holds a reference to
\* carries CallerMark as a member; whatever keeps that array itself, and
\* not a copy of it, keeps the mark and is changed when the caller changes
\* the array.  Only arrays of letters are handed in with the mark.
CallerMark == "@"

\* handing the object on as it is
keepReference(key, value) == value

\* klona(value): a deep copy, equal in content and distinct in identity
klona(key, value) ==
  IF items[key].schema = "letters" THEN value \ {CallerMark} ELSE value

\* the value a set argument resolves to; an updater removes the parts arg.v
\* from the current value

resolveValue(arg, currentValue) ==
  IF arg.kind = "updater" THEN currentValue \ arg.v ELSE arg.v

\* setItemValue once the store is there; obs tells how the call went
setResolved(S, key, storageKey, arg, nextValue) ==
  IF arg.kind = "undefined" \/ nextValue = items[key].default
    THEN [deleteItem(S, key) EXCEPT !.obs = "default"]
    ELSE [storeSetState(S, storageKey, key, klona(key, nextValue), TRUE)
            EXCEPT !.obs = IF klona(key, nextValue) = S.stores[storageKey] THEN "same"
                           ELSE "changed"]

resetStoreToDefault(S, storageKey) ==
  internalSetState(cancelPendingSync(S, storageKey), storageKey,
                   getItemKeyFromStorageKey(storageKey),
                   IF getItemKeyFromStorageKey(storageKey) \in DOMAIN items
                     THEN items[getItemKeyFromStorageKey(storageKey)].default ELSE {},
                   FALSE)

\* storage.removeItem(storageKey); clearTtlState; resetStoreToDefault
clearStorageKey(S, storageKey, isSession) ==
  resetStoreToDefault(clearTtlState(removeItem(S, isSession, storageKey), storageKey),
                      storageKey)

\* for (const key in items) cancelPendingSync(getLocalStorageItemKey(key))
RECURSIVE cancelAllPending(_, _)
cancelAllPending(S, keys) ==
  IF keys = {} THEN S
  ELSE cancelAllPending(cancelPendingSync(S, getLocalStorageItemKey(CHOOSE x \in keys : TRUE)),
                        keys \ {CHOOSE x \in keys : TRUE})

\* the loop of clearAll or clearAllBy over the keys found in one storage
RECURSIVE clearStorageKeys(_, _, _)
clearStorageKeys(S, keys, isSession) ==
  IF keys = {} \/ ~Ok(S) THEN S
  ELSE clearStorageKeys(clearStorageKey(S, CHOOSE x \in keys : TRUE, isSession),
                        keys \ {CHOOSE x \in keys : TRUE}, isSession)

clearSessionStorageKeys(L) == clearStorageKeys(L, getStorageItemKeys(L.ss, NoKey), TRUE)

clearAll(S) ==
  clearSessionStorageKeys(
    clearStorageKeys(cancelAllPending(S, DOMAIN items),
                     getStorageItemKeys(S.ls, NoKey), FALSE))

\* shouldRemove of clearAllBy.removeKeyFromStorage
shouldRemove(storageKey, filter) ==
  IF filter.withNoSessionId THEN StartsWithNoSession(storageKey)
  ELSE IF filter.allSessionIds THEN ~StartsWithNoSession(storageKey)
  ELSE IF filter.sessionId # << >>
    THEN ~StartsWithNoSession(storageKey) /\ StartsWithSession(storageKey, filter.sessionId)
    ELSE FALSE

clearSessionStorageBy(L, filter) ==
  clearStorageKeys(L, {k \in getStorageItemKeys(L.ss, NoKey) : shouldRemove(k, filter)}, TRUE)

clearAllBy(S, filter) ==
  clearSessionStorageBy(
    clearStorageKeys(S, {k \in getStorageItemKeys(S.ls, NoKey) : shouldRemove(k, filter)},
                     FALSE),
    filter)

setItemValue(S, key, arg) ==
  IF getLocalStorageItemKey(key) = NoKey THEN S
  ELSE Then(getStore(S, key),
            LAMBDA T : setResolved(T, key, getLocalStorageItemKey(key), arg,
                                   resolveValue(arg, T.stores[getLocalStorageItemKey(key)])))

\* store.state of the store that getStore(key) returns: a store on the
\* default while no session is active
storeState(S, key) ==
  IF getLocalStorageItemKey(key) = NoKey THEN items[key].default
  ELSE S.stores[getLocalStorageItemKey(key)]

returnState(S, key) == [S EXCEPT !.ret = storeState(S, key)]

getValue(S, key) ==
  Then(Then(getStore(S, key),
            LAMBDA T : IF getLocalStorageItemKey(key) = NoKey \/ items[key].ttl.kind = "none"
                         THEN T
                         ELSE runTtlCleanup(T, getLocalStorageItemKey(key), now)),
       LAMBDA T : returnState(T, key))

\* store.produceState(recipe): the recipe returns the array recipe.v, which
\* becomes the next state through the middleware of the store
produceState(S, key, recipe) ==
  storeSetState(S, getLocalStorageItemKey(key), key, recipe.v, FALSE)

\* getStore(key).setState(next), called by the user of the store
directSetState(S, key, next) ==
  Then(getStore(S, key),
       LAMBDA T : storeSetState(T, getLocalStorageItemKey(key), key, next.v, FALSE))

\* getStore(key).produceState(recipe), called by the user of the store
directProduceState(S, key, recipe) ==
  Then(getStore(S, key), LAMBDA T : produceState(T, key, recipe))

\* smartLocalStorage.produce(key, recipe)
produce(S, key, recipe) ==
  IF getLocalStorageItemKey(key) = NoKey THEN S
  ELSE Then(getStore(S, key), LAMBDA T : produceState(T, key, recipe))

\* smartLocalStorage.produceWithFallback(key, fallback, recipe): the state
\* of a store is an array here, never null or undefined, so the recipe is
\* applied to the current state and the fallback is not used
produceWithFallback(S, key, nullableFallback, recipe) ==
  IF getLocalStorageItemKey(key) = NoKey THEN S
  ELSE Then(getStore(S, key), LAMBDA T : produceState(T, key, recipe))

\* a listener that leaves the store as it is
listenerIgnore(S, itemKey, parsed) == S

\* the storage listener adopts the parsed value: store.setState(klona(value),
\* {equalityCheck: deepEqual}) on the store of the item's current key
listenerAdopt(S, itemKey, parsed) ==
  storeSetState(S, getLocalStorageItemKey(itemKey), itemKey, parsed.value, TRUE)

\* the storage listener after its runTtlCleanup, whose result is in S.r
listenerAfterCleanup(S, storageKey, itemKey, parsed) ==
  IF S.r THEN S
  ELSE listenerAdopt(setTtlState(S, storageKey, itemKey,
                                 metadataOrSynthesized(parsed, items[itemKey].ttl, now)),
                     itemKey, parsed)

\* the storage listener once event.newValue is parsed
listenerParsed(S, storageKey, itemKey, parsed) ==
  IF ~parsed.ok THEN S
  ELSE IF items[itemKey].ttl.kind # "none"
    THEN Then(runTtlCleanup(S, storageKey, now),
              LAMBDA T : listenerAfterCleanup(T, storageKey, itemKey, parsed))
    ELSE listenerAdopt(S, itemKey, parsed)

\* the storage listener once the store of the item is at hand
listenerWithStore(S, storageKey, itemKey, event) ==
  IF event.removed
    THEN Then(storeSetState(S, getLocalStorageItemKey(itemKey), itemKey,
                            items[itemKey].default, FALSE),
              LAMBDA T : clearTtlState(T, storageKey))
    ELSE listenerParsed(S, storageKey, itemKey, parseStoredValue(itemKey, event.newValue))

\* the listener of the storage event of storageKey, a key that begins with
\* slsm; itemOptions.syncTabsState is read off undefined, a TypeError, when
\* the item of the key is not configured
storageListener(S, storageKey, event) ==
  IF getItemKeyFromStorageKey(storageKey) \notin DOMAIN items
    THEN [S EXCEPT !.err = "type"]
  ELSE IF ~items[getItemKeyFromStorageKey(storageKey)].syncTabsState THEN S
  ELSE Then(getStore(markInternalUpdate(S, storageKey),
                     getItemKeyFromStorageKey(storageKey)),
            LAMBDA T : listenerWithStore(T, storageKey,
                                         getItemKeyFromStorageKey(storageKey), event))

(***************************************************************************)
(* Observations kept for the properties                                    *)
(***************************************************************************)
NoGet == [key |-> NoKey, value |-> {}, at |-> -1, thrown |-> FALSE]

NoHad == [entry |-> FALSE, ttl |-> FALSE, pend |-> FALSE]

NoOp ==
  [op |-> "init", key |-> NoKey, err |-> "none", ev |-> << >>, obs |-> "none",
   arg |-> "none", had |-> NoHad]

\* number of physical writes of storageKey made for a user mutation
RECURSIVE MutationWrites(_, _)
MutationWrites(wr, storageKey) ==
  IF wr = << >> THEN 0
  ELSE (IF Head(wr).key = storageKey /\ Head(wr).source = "mutation" THEN 1 ELSE 0)
       + MutationWrites(Tail(wr), storageKey)

\* hist after the writes recorded in wr
histAfterWrites(h, wr) ==
  [k \in DOMAIN h |-> [h[k] EXCEPT !.written = @ + MutationWrites(wr, k)]]

\* hist after a set of storageKey that changed the value to v: the mutation
\* and the one before it, the first mutation since the last write and the
\* number of mutations since then (counted up to 3) and, for an item with
\* parts, the mutation before and the number of mutations since the key
\* was last deleted (counted up to 3)
histAfterMutation(h, storageKey, v) ==
  Put(h, storageKey,
      [at |-> now, v |-> v, written |-> 0, again |-> FALSE,
       first |-> IF storageKey \in DOMAIN h /\ h[storageKey].written = 0
                   THEN h[storageKey].first ELSE now,
       burst |-> IF storageKey \in DOMAIN h /\ h[storageKey].written = 0
                   THEN Min2(h[storageKey].burst + 1, 3) ELSE 1,
       prevAt |-> IF storageKey \in DOMAIN h /\ items[storageKey.item].ttl.kind = "parts"
                    THEN h[storageKey].at ELSE -1,
       prevV |-> IF storageKey \in DOMAIN h /\ items[storageKey.item].ttl.kind = "parts"
                   THEN h[storageKey].v ELSE {},
       depth |-> IF storageKey \in DOMAIN h /\ items[storageKey.item].ttl.kind = "parts"
                   THEN Min2(h[storageKey].depth + 1, 3) ELSE 1])

\* hist after a set call that ended in state S
histAfterSet(h, S, storageKey) ==
  histAfterWrites(
    IF ~Ok(S) \/ storageKey.item \notin tracked THEN h
    ELSE IF S.obs = "default" THEN Drop(h, storageKey)
    ELSE IF S.obs = "same"
      THEN [k \in DOMAIN h |-> IF k = storageKey THEN [h[k] EXCEPT !.again = TRUE] ELSE h[k]]
    ELSE histAfterMutation(h, storageKey, S.stores[storageKey]),
    S.wr)

\* gone after a call on storageKey that ended in state S: a delete, or a set
\* that resolved to the default, marks the key; a mutation unmarks it
goneAfterCall(g, S, op, storageKey) ==
  IF ~Ok(S) \/ storageKey.item \notin tracked THEN g
  ELSE IF op = "delete" \/ (op = "set" /\ S.obs = "default") THEN Put(g, storageKey, "delete")
  ELSE IF op = "set" /\ S.obs = "changed" THEN Drop(g, storageKey)
  ELSE g

\* gone after a clear that was asked to remove the keys in cleared
goneAfterClear(g, cleared) ==
  [k \in (DOMAIN g) \cup cleared |-> IF k \in cleared THEN "clear" ELSE g[k]]

\* the handler ended in state S: its effects and what is recorded of it.
\* cleared holds the keys that a clear was asked to remove.
CommitWith(S, op, storageKey, cleared) ==
  /\ localStorage' = S.ls
  /\ sessionStorage' = S.ss
  /\ ttlStates' = S.ttl
  /\ ttlTimers' = S.tt
  /\ itemStores' = S.stores
  /\ isInternalUpdate' = S.flag
  /\ pendingSyncOperations' = S.pend
  /\ syncTimers' = S.timers
  /\ idleCleanup' = (idleCleanup /\ op # "startup")
  /\ lastOp' = [op |-> op, key |-> storageKey, err |-> S.err, ev |-> S.ev, obs |-> S.obs,
                arg |-> S.arg,
                had |-> [entry |-> storageKey \in DOMAIN localStorage \cup DOMAIN sessionStorage,
                         ttl |-> storageKey \in DOMAIN ttlStates,
                         pend |-> storageKey \in DOMAIN pendingSyncOperations]]
  /\ lastGet' = IF op # "get" THEN NoGet
                ELSE IF ~Ok(S)
                  THEN [key |-> storageKey, value |-> {}, at |-> now, thrown |-> TRUE]
                  ELSE [key |-> storageKey, value |-> S.ret,
                        at |-> now, thrown |-> FALSE]
  /\ hist' = IF op = "set" THEN histAfterSet(hist, S, storageKey)
             ELSE IF op = "delete" THEN histAfterWrites(Drop(hist, storageKey), S.wr)
             ELSE histAfterWrites([k \in (DOMAIN hist) \ cleared |-> hist[k]], S.wr)
  /\ gone' = IF cleared = {} THEN goneAfterCall(gone, S, op, storageKey)
             ELSE goneAfterClear(gone, cleared)
  /\ UNCHANGED <<items, sessionId, quota, now, tracked>>

Commit(S, op, storageKey) == CommitWith(S, op, storageKey, {})

(***************************************************************************)
(* Actions                                                                 *)
(***************************************************************************)
\* smartLocalStorage.set(key, value | updater)
Set(key, arg) ==
  Commit(setItemValue([Cur EXCEPT !.arg = arg], key, arg), "set",
         getLocalStorageItemKey(key))

\* smartLocalStorage.delete(key)
Delete(key) == Commit(deleteItem(Cur, key), "delete", getLocalStorageItemKey(key))

\* smartLocalStorage.produce(key, recipe)
Produce(key, recipe) ==
  Commit(produce([Cur EXCEPT !.arg = recipe], key, recipe), "produce",
         getLocalStorageItemKey(key))

\* smartLocalStorage.produceWithFallback(key, fallback, recipe)
ProduceWithFallback(key, nullableFallback, recipe) ==
  Commit(produceWithFallback([Cur EXCEPT !.arg = recipe], key, nullableFallback, recipe),
         "produceWithFallback", getLocalStorageItemKey(key))

\* getStore(key).setState(next)
StoreSetState(key, next) ==
  Commit(directSetState([Cur EXCEPT !.arg = next], key, next), "setState",
         getLocalStorageItemKey(key))

\* getStore(key).produceState(recipe)
StoreProduceState(key, recipe) ==
  Commit(directProduceState([Cur EXCEPT !.arg = recipe], key, recipe), "produceState",
         getLocalStorageItemKey(key))

\* smartLocalStorage.get(key)
Get(key) == Commit(getValue(Cur, key), "get", getLocalStorageItemKey(key))

\* what get(key) returns when called in the current state
Returned(key) == getValue(Cur, key).ret

\* the timer armed by scheduleNextTtlCheck fires
TtlTimerFire(storageKey) ==
  \E timer \in ttlTimers :
    /\ timer.storageKey = storageKey
    /\ timer.due <= now
    /\ Commit(runTtlCleanup(
                [Cur EXCEPT !.tt = @ \ {timer},
                            !.ttl = [k \in DOMAIN @ |->
                                       IF k = storageKey /\ @[k].timer = timer.due
                                         THEN [@[k] EXCEPT !.timer = NoTimer] ELSE @[k]]],
                storageKey, now),
              "ttlTimer", storageKey)

\* the timer or idle callback armed by persistValue runs performWrite
SyncTimerFire(timer) ==
  /\ timer \in syncTimers
  /\ timer.due <= now
  /\ Commit(performWrite([Cur EXCEPT !.timers = @ \ {timer}], timer.key, timer.value,
                         timer.storageKey, timer.metadata, "mutation"),
            "syncTimer", timer.storageKey)

\* obs notes whether the handler removed a physical entry
noteRemovals(S) ==
  [S EXCEPT !.obs = IF DOMAIN localStorage \subseteq DOMAIN S.ls
                       /\ DOMAIN sessionStorage \subseteq DOMAIN S.ss
                     THEN "kept" ELSE "removed"]

\* the idle callback registered at construction sweeps both storages
StartupSweep ==
  /\ idleCleanup
  /\ Commit(noteRemovals(handleIdleCleanup(Cur)), "startup", NoKey)

\* the storage as another tab left it: newValue under storageKey, or no entry
externalWrite(S, storageKey, event) ==
  IF event.removed THEN removeItem(S, storageKey.ss, storageKey)
  ELSE IF storageKey.ss THEN [S EXCEPT !.ss = Put(@, storageKey, event.newValue)]
  ELSE [S EXCEPT !.ls = Put(@, storageKey, event.newValue)]

\* obs notes whether the handler made a physical write
noteWrites(S) == [S EXCEPT !.obs = IF S.wr = << >> THEN "quiet" ELSE "wrote"]

\* another tab changes the entry of storageKey and the storage event reaches
\* the listener
ExternalChange(storageKey, event) ==
  Commit(noteWrites(storageListener(
           [externalWrite(Cur, storageKey, event) EXCEPT !.arg = event],
           storageKey, event)),
         "external", storageKey)

\* the keys that a clear with this filter is asked to remove, among those
\* that are stored, cached, pending or were mutated: those of session
\* filter.sessionId, the session-scoped ones, or the unscoped ones
AskedToClear(filter) ==
  {k \in DOMAIN localStorage \cup DOMAIN sessionStorage \cup DOMAIN itemStores
          \cup DOMAIN pendingSyncOperations \cup DOMAIN hist :
     /\ IsNamespaced(k)
     /\ k.item \in tracked
     /\ IF filter.withNoSessionId THEN k.sid = << >>
        ELSE IF filter.allSessionIds THEN k.sid # << >>
        ELSE k.sid = filter.sessionId}

\* every key of the namespace
EveryKey == [sessionId |-> << >>, allSessionIds |-> TRUE, withNoSessionId |-> TRUE]

\* smartLocalStorage.clearAll()
ClearAll ==
  CommitWith(clearAll(Cur), "clearAll", NoKey,
             AskedToClear(EveryKey) \cup AskedToClear([EveryKey EXCEPT !.withNoSessionId = FALSE]))

\* smartLocalStorage.clearAllBy(filter); obs notes which option was given
ClearAllBy(filter) ==
  CommitWith([clearAllBy(Cur, filter) EXCEPT
                !.obs = IF filter.withNoSessionId THEN "withNoSessionId"
                        ELSE IF filter.allSessionIds THEN "allSessionIds" ELSE "sessionId"],
             "clearAllBy", [NoKey EXCEPT !.sid = filter.sessionId], AskedToClear(filter))

\* getSessionId() starts returning another session id
SwitchSession(id) ==
  /\ id # sessionId
  /\ sessionId' = id
  /\ lastGet' = NoGet
  /\ lastOp' = [NoOp EXCEPT !.op = "session"]
  /\ UNCHANGED <<items, quota, now, localStorage, sessionStorage, ttlStates, ttlTimers,
                 itemStores, isInternalUpdate, pendingSyncOperations, syncTimers,
                 idleCleanup, hist, gone, tracked>>

\* set(key, value) on an item with no TTL, compression, pruning or sync
\* delay, for a value that is not the default: the store takes the value
\* and performWrite stores JSON.stringify(value), kept here as what
\* parseStoredValue will read in it
SetJson(key, value) ==
  /\ value # items[key].default
  /\ Commit(setItem(putStoreState(getStore([Cur EXCEPT !.arg = value], key),
                                  getLocalStorageItemKey(key), value),
                    items[key].useSessionStorage, getLocalStorageItemKey(key),
                    readJson(value), "mutation"),
            "set", getLocalStorageItemKey(key))

\* the page is loaded again: a new instance over the same storage.  arg
\* keeps what the last call was given.
Reload ==
  /\ lastOp.op = "set"
  /\ ttlStates' = << >>
  /\ ttlTimers' = {}
  /\ itemStores' = << >>
  /\ isInternalUpdate' = {}
  /\ pendingSyncOperations' = << >>
  /\ syncTimers' = {}
  /\ idleCleanup' = TRUE
  /\ lastGet' = NoGet
  /\ lastOp' = [NoOp EXCEPT !.op = "reload", !.arg = lastOp.arg]
  /\ UNCHANGED <<items, sessionId, quota, now, localStorage, sessionStorage, hist, gone,
                 tracked>>

\* array.push('!') on an array that may be the caller's
pushed(value) == IF CallerMark \in value THEN value \cup {"!"} ELSE value

\* the caller of the last set changes the array it passed (array.push('!')):
\* every place that holds that very array sees the change
MutateArgument ==
  /\ lastOp.op = "set"
  /\ itemStores' = [k \in DOMAIN itemStores |-> pushed(itemStores[k])]
  /\ pendingSyncOperations' =
       [k \in DOMAIN pendingSyncOperations |->
          [pendingSyncOperations[k] EXCEPT !.value = pushed(@),
                                           !.timer.value = pushed(@)]]
  /\ syncTimers' = {[t EXCEPT !.value = pushed(@)] : t \in syncTimers}
  /\ lastGet' = NoGet
  /\ lastOp' = [NoOp EXCEPT !.op = "mutate", !.key = lastOp.key]
  /\ UNCHANGED <<items, sessionId, quota, now, localStorage, sessionStorage, ttlStates,
                 ttlTimers, isInternalUpdate, idleCleanup, hist, gone, tracked>>

\* a timer is due and has not run yet
TimerDue ==
  \/ \E timer \in ttlTimers : timer.due <= now
  \/ \E t \in syncTimers : t.force <= now

\* time passes; due timers run before the clock moves on
Advance(maxTicks) ==
  /\ ~TimerDue
  /\ now + Step <= maxTicks * Step
  /\ now' = now + Step
  /\ lastGet' = NoGet
  /\ lastOp' = [NoOp EXCEPT !.op = "advance"]
  /\ UNCHANGED <<items, sessionId, quota, localStorage, sessionStorage, ttlStates,
                 ttlTimers, itemStores, isInternalUpdate, pendingSyncOperations,
                 syncTimers, idleCleanup, hist, gone, tracked>>

(***************************************************************************)
(* Item configurations                                                     *)
(***************************************************************************)
Item(ttl, syncDelay) ==
  [default |-> {}, schema |-> "letters", throwing |-> "none", useSessionStorage |-> FALSE,
   ignoreSessionId |-> FALSE, priority |-> -1, ttl |-> ttl, syncDelay |-> syncDelay, syncTabsState |-> FALSE,
   compress |-> "none", autoPrune |-> [on |-> FALSE, keep |-> 0],
   autoPruneBySize |-> [on |-> FALSE, maxBytes |-> 0,
                        step |-> [floor |-> 0, atFloor |-> "copy"]]]

\* the ids that getSessionId returns; the first is a prefix of the second
Sessions == {<<"x">>, <<"x", "y">>}

InitFresh ==
  /\ ttlStates = << >>
  /\ ttlTimers = {}
  /\ itemStores = << >>
  /\ isInternalUpdate = {}
  /\ pendingSyncOperations = << >>
  /\ syncTimers = {}
  /\ idleCleanup = TRUE
  /\ lastGet = NoGet
  /\ lastOp = NoOp
  /\ hist = << >>
  /\ gone = << >>

InitEmpty == sessionStorage = << >> /\ InitFresh

NoQuota == 100000

(***************************************************************************)
(* SpecTtl: a whole-item TTL item and a partitioned TTL item over time     *)
(***************************************************************************)
\* the store is configured with one of these item sets
TtlConfigs ==
  {[w |-> Item([kind |-> "whole", minutes |-> 1], NoDelay)],
   [p |-> Item([kind |-> "parts", minutes |-> 2], NoDelay)]}

TtlArgs ==
  {[kind |-> "value", v |-> {"A", "B"}],
   [kind |-> "value", v |-> {"A", "B", "C"}],
   [kind |-> "undefined", v |-> {}]}

InitTtl ==
  /\ localStorage = << >>
  /\ items \in TtlConfigs
  /\ sessionId = << >>
  /\ quota = NoQuota
  /\ now \in {0, Step}
  /\ tracked = DOMAIN items
  /\ InitEmpty

NextTtl ==
  \/ \E key \in DOMAIN items, arg \in TtlArgs : Set(key, arg)
  \/ \E key \in DOMAIN items : Get(key)
  \/ \E storageKey \in DOMAIN ttlStates : TtlTimerFire(storageKey)
  \/ StartupSweep
  \/ Advance(MaxTicks)

SpecTtl == InitTtl /\ [][NextTtl]_vars

(***************************************************************************)
(* Properties of SpecTtl                                                   *)
(***************************************************************************)
WholeKey == [sid |-> << >>, ss |-> FALSE, item |-> "w"]

PartsKey == [sid |-> << >>, ss |-> FALSE, item |-> "p"]

\* a get of storageKey was just answered, and the key was set once (at
\* hist.at) since its last mutation
GotAfterSet(storageKey) ==
  /\ lastGet.key = storageKey
  /\ ~lastGet.thrown
  /\ storageKey \in DOMAIN hist
  /\ ~hist[storageKey].again

\* C2: a whole-item TTL item of duration d set at t0 (any instant) and not
\* mutated afterwards reads as the set value at every t < t0 + d, and at
\* every t >= t0 + d it reads as the default and its physical entry is gone
C2_WholeTtlExact ==
  GotAfterSet(WholeKey) =>
    LET t0 == hist[WholeKey].at
        d == getTtlDurationMs(items.w.ttl)
    IN IF lastGet.at < t0 + d
         THEN lastGet.value = hist[WholeKey].v
         ELSE lastGet.value = items.w.default /\ WholeKey \notin DOMAIN localStorage

\* the scenario of C3: {A, B} written at t0 on an absent item, then
\* {A, B, C} written at t0 + d/2
PartsScenario ==
  /\ PartsKey \in DOMAIN hist
  /\ hist[PartsKey].depth = 2
  /\ hist[PartsKey].prevV = {"A", "B"}
  /\ hist[PartsKey].v = {"A", "B", "C"}
  /\ 2 * (hist[PartsKey].at - hist[PartsKey].prevAt) = getTtlDurationMs(items.p.ttl)

\* C3: in that scenario A and B keep their t0 stamps and leave the value at
\* t0 + d, and C stays in the value until t0 + d + d/2
C3_PartsIsolation ==
  (PartsScenario /\ GotAfterSet(PartsKey)) =>
    LET t0 == hist[PartsKey].prevAt
        d == getTtlDurationMs(items.p.ttl)
        t == lastGet.at
    IN /\ t < t0 + d => lastGet.value = {"A", "B", "C"}
       /\ (t >= t0 + d /\ 2 * t < 2 * t0 + 3 * d) => lastGet.value = {"C"}
       /\ 2 * t >= 2 * t0 + 3 * d => lastGet.value = {}
       /\ (PartsKey \in DOMAIN ttlStates /\ "A" \in DOMAIN ttlStates[PartsKey].parts)
            => ttlStates[PartsKey].parts["A"] = t0

\* the same statement for writes made on whole-minute instants only
C3_PartsIsolationOnMinute ==
  (PartsScenario /\ hist[PartsKey].prevAt % MS_PER_MINUTE = 0) => C3_PartsIsolation

(***************************************************************************)
(* SpecSync: one item with a debounce policy, with or without a TTL        *)
(***************************************************************************)
DebounceMs == 2 * Step

MaxWaitMs == 5 * Step

Debounce(ms, maxWaitMs) == [type |-> "debounce", ms |-> ms, maxWaitMs |-> maxWaitMs]

\* {type: 'onIdleCallback', timeoutMs}; ms holds timeoutMs
OnIdle(timeoutMs) == [type |-> "onIdleCallback", ms |-> timeoutMs, maxWaitMs |-> 0]

\* the store is configured with one of these item sets
SyncConfigs ==
  {[d |-> Item(NoTtl, Debounce(DebounceMs, 0))],
   [m |-> Item(NoTtl, Debounce(DebounceMs, MaxWaitMs))],
   [x |-> Item([kind |-> "whole", minutes |-> 1], Debounce(DebounceMs, 0))]}

SyncArgs ==
  {[kind |-> "value", v |-> {"A"}],
   [kind |-> "value", v |-> {"A", "B"}],
   [kind |-> "value", v |-> {}],
   [kind |-> "undefined", v |-> {}],
   [kind |-> "updater", v |-> {"A", "B"}]}

InitSync ==
  /\ localStorage = << >>
  /\ items \in SyncConfigs
  /\ sessionId = << >>
  /\ quota = NoQuota
  /\ now = 0
  /\ tracked = DOMAIN items
  /\ InitEmpty

NextSync ==
  \/ \E key \in DOMAIN items, arg \in SyncArgs : Set(key, arg)
  \/ \E key \in DOMAIN items : Delete(key)
  \/ \E key \in DOMAIN items : Get(key)
  \/ \E storageKey \in DOMAIN ttlStates : TtlTimerFire(storageKey)
  \/ \E timer \in syncTimers : SyncTimerFire(timer)
  \/ StartupSweep
  \/ Advance(MaxSyncTicks)

SpecSync == InitSync /\ [][NextSync]_vars

(***************************************************************************)
(* Properties of SpecSync                                                  *)
(***************************************************************************)
KeyOf(item) == [sid |-> << >>, ss |-> FALSE, item |-> item]

\* the state is the one that deleteItem leaves in D
SameAsDelete(D) ==
  /\ localStorage' = D.ls
  /\ sessionStorage' = D.ss
  /\ ttlStates' = D.ttl
  /\ itemStores' = D.stores
  /\ isInternalUpdate' = D.flag
  /\ pendingSyncOperations' = D.pend
  /\ syncTimers' = D.timers

\* nothing is left of storageKey: no physical entry, no TTL state, no pending
\* deferred write nor timer, and the cached value is the default
NothingLeft(storageKey) ==
  /\ storageKey \notin DOMAIN localStorage'
  /\ storageKey \notin DOMAIN sessionStorage'
  /\ storageKey \notin DOMAIN ttlStates'
  /\ storageKey \notin DOMAIN pendingSyncOperations'
  /\ \A timer \in syncTimers' : timer.storageKey # storageKey
  /\ itemStores'[storageKey] = items[storageKey.item].default

C8_DebounceCoalescing ==
  ("d" \in DOMAIN items /\ KeyOf("d") \in DOMAIN hist) =>
    /\ now < hist[KeyOf("d")].at + items.d.syncDelay.ms => hist[KeyOf("d")].written = 0
    /\ now > hist[KeyOf("d")].at + items.d.syncDelay.ms => hist[KeyOf("d")].written = 1
    /\ hist[KeyOf("d")].written <= 1
    /\ hist[KeyOf("d")].written = 1 =>
         /\ KeyOf("d") \in DOMAIN localStorage
         /\ parseStoredValue("d", localStorage[KeyOf("d")]).value = hist[KeyOf("d")].v

\* three mutations, each made while the write of the one before was still
\* pending, were written by one physical write at w after the last
C8_Witness ==
  /\ "d" \in DOMAIN items
  /\ KeyOf("d") \in DOMAIN hist
  /\ hist[KeyOf("d")].burst = 3
  /\ hist[KeyOf("d")].written = 1
  /\ now = hist[KeyOf("d")].at + items.d.syncDelay.ms

\* C9: while a deferred write is pending for a key, get returns the value of
\* the most recent mutation, whatever TTL or sync-delay policy the item has
C9_GetSeesLatestMutation ==
  \A storageKey \in DOMAIN hist :
    (lastGet.key = storageKey /\ ~lastGet.thrown /\ lastOp.had.pend)
      => lastGet.value = hist[storageKey].v

\* C13: a whole-item TTL item still holds the value of its most recent
\* mutation at every instant before d after that mutation: neither get, nor
\* the timer armed for an earlier write, nor a sweep expires it earlier, also
\* when the write of the mutation is deferred
C13_SetRestartsLifetime ==
  \A k \in DOMAIN hist :
    (/\ items[k.item].ttl.kind = "whole"
     /\ now < hist[k].at + getTtlDurationMs(items[k.item].ttl))
      => itemStores[k] = hist[k].v

\* C10: with {ms, maxWaitMs} the write of the latest value is never pending
\* later than maxWaitMs after the first mutation since the last write; the
\* pending record keeps that first instant whatever mutations follow, and a
\* mutation after a write starts from its own instant
C10_MaxWaitAnchor ==
  ("m" \in DOMAIN items /\ KeyOf("m") \in DOMAIN hist) =>
    /\ hist[KeyOf("m")].written = 0 =>
         /\ now <= hist[KeyOf("m")].first + items.m.syncDelay.maxWaitMs
         /\ KeyOf("m") \in DOMAIN pendingSyncOperations
         /\ pendingSyncOperations[KeyOf("m")].firstScheduledAt = hist[KeyOf("m")].first
         /\ pendingSyncOperations[KeyOf("m")].value = hist[KeyOf("m")].v
    /\ hist[KeyOf("m")].written > 0 =>
         /\ hist[KeyOf("m")].written = 1
         /\ KeyOf("m") \notin DOMAIN pendingSyncOperations
         /\ parseStoredValue("m", localStorage[KeyOf("m")]).value = hist[KeyOf("m")].v

\* a burst of three mutations was written when maxWaitMs had passed since
\* its first mutation, less than ms after its last one
C10_Witness ==
  /\ "m" \in DOMAIN items
  /\ KeyOf("m") \in DOMAIN hist
  /\ hist[KeyOf("m")].burst = 3
  /\ hist[KeyOf("m")].written = 1
  /\ now = hist[KeyOf("m")].first + items.m.syncDelay.maxWaitMs
  /\ now < hist[KeyOf("m")].at + items.m.syncDelay.ms

(***************************************************************************)
(* SpecCancel: one item whose writes are deferred, by an idle callback or  *)
(* by a debounce timer next to a partitioned TTL, set, read and deleted    *)
(***************************************************************************)
MaxCancelTicks == 5

IdleTimeoutMs == 2 * Step

CancelConfigs ==
  {[i |-> Item(NoTtl, OnIdle(IdleTimeoutMs))],
   [y |-> Item([kind |-> "parts", minutes |-> 1], Debounce(DebounceMs, 0))]}

CancelArgs ==
  {[kind |-> "value", v |-> {"A"}],
   [kind |-> "value", v |-> {"A", "B"}],
   [kind |-> "undefined", v |-> {}]}

InitCancel ==
  /\ localStorage = << >>
  /\ items \in CancelConfigs
  /\ sessionId = << >>
  /\ quota = NoQuota
  /\ now = 0
  /\ tracked = DOMAIN items
  /\ InitEmpty

NextCancel ==
  \/ \E key \in DOMAIN items, arg \in CancelArgs : Set(key, arg)
  \/ \E key \in DOMAIN items : Delete(key)
  \/ \E key \in DOMAIN items : Get(key)
  \/ \E storageKey \in DOMAIN ttlStates : TtlTimerFire(storageKey)
  \/ \E timer \in syncTimers : SyncTimerFire(timer)
  \/ Advance(MaxCancelTicks)

SpecCancel == InitCancel /\ [][NextCancel]_vars

\* the key is in one of the storages
Stored(storageKey) ==
  storageKey \in DOMAIN localStorage \cup DOMAIN sessionStorage

\* C11: a key removed by delete, or by a set to undefined or the default,
\* has no physical entry until it is mutated again: no deferred write that
\* was pending for it, by debounce or by idle callback, runs afterwards
C11_DeleteCancelsPending ==
  \A k \in DOMAIN gone : gone[k] = "delete" => ~Stored(k)

\* the same for an item without a TTL, whose writes wait for an idle callback
C11_DeleteCancelsIdle ==
  "i" \in DOMAIN items => C11_DeleteCancelsPending

(***************************************************************************)
(* SpecClear: a session-scoped item with deferred writes, an unscoped item *)
(* and a tab-scoped item, mutated under two session ids and cleared        *)
(***************************************************************************)
MaxClearTicks == 3

ClearItems ==
  [a |-> Item(NoTtl, Debounce(DebounceMs, 0)),
   g |-> [Item(NoTtl, NoDelay) EXCEPT !.ignoreSessionId = TRUE],
   s |-> [Item(NoTtl, NoDelay) EXCEPT !.useSessionStorage = TRUE]]

ClearArgs == {[kind |-> "value", v |-> {"A"}]}

\* the arguments of clearAllBy: one session, every session, or no session
Filters ==
  {[sessionId |-> sid, allSessionIds |-> FALSE, withNoSessionId |-> FALSE] : sid \in Sessions}
    \cup {[sessionId |-> << >>, allSessionIds |-> TRUE, withNoSessionId |-> FALSE],
          [sessionId |-> << >>, allSessionIds |-> FALSE, withNoSessionId |-> TRUE]}

InitClear ==
  /\ localStorage = << >>
  /\ items = ClearItems
  /\ sessionId \in Sessions
  /\ quota = NoQuota
  /\ now = 0
  /\ tracked = {"a"}
  /\ InitEmpty

NextClear ==
  \/ \E key \in DOMAIN items, arg \in ClearArgs : Set(key, arg)
  \/ ClearAll
  \/ \E filter \in Filters : ClearAllBy(filter)
  \/ \E id \in Sessions : SwitchSession(id)
  \/ \E timer \in syncTimers : SyncTimerFire(timer)
  \/ Advance(MaxClearTicks)

SpecClear == InitClear /\ [][NextClear]_vars

\* C12: a key that clearAll, or a clearAllBy whose filter it matches, was
\* asked to remove has no physical entry until it is mutated again: no
\* deferred write that was pending before the clear is written afterwards,
\* whether or not its first write had reached storage and whatever session
\* it was mutated under
C12_ClearCancelsPending ==
  \A k \in DOMAIN gone : gone[k] = "clear" => ~Stored(k)

\* the key is one that the clearAllBy just made was asked to remove: of the
\* session given, of any session, or of no session
MatchesLastFilter(k) ==
  IF lastOp'.obs = "withNoSessionId" THEN k.sid = << >>
  ELSE IF lastOp'.obs = "allSessionIds" THEN k.sid # << >>
  ELSE k.sid = lastOp'.key.sid

\* storage without the entries that the clearAllBy was asked to remove
WithoutMatching(storage) ==
  [k \in {x \in DOMAIN storage : ~MatchesLastFilter(x)} |-> storage[k]]

\* C20: clearAllBy removes from both storages exactly the entries its
\* filter names (those of session s, the session-scoped ones, or the
\* unscoped ones); every other entry stays as it was, and so does the cached
\* value of every item whose current physical key was not removed
C20_ClearByExact ==
  [][lastOp'.op = "clearAllBy" =>
       /\ localStorage' = WithoutMatching(localStorage)
       /\ sessionStorage' = WithoutMatching(sessionStorage)
       /\ \A key \in DOMAIN items :
            (/\ getLocalStorageItemKey(key) \in DOMAIN itemStores
             /\ ~(Stored(getLocalStorageItemKey(key))
                  /\ MatchesLastFilter(getLocalStorageItemKey(key))))
              => itemStores'[getLocalStorageItemKey(key)]
                   = itemStores[getLocalStorageItemKey(key)]]_vars

(***************************************************************************)
(* SpecTabs: cross-tab sync and stored strings that do not parse.  One     *)
(* item with syncTabsState, e (no TTL), w (whole-item TTL), p (partitioned *)
(* TTL) or z (compressed), in a namespace without session.  The storage    *)
(* may hold an entry when the instance is constructed.                     *)
(***************************************************************************)
MaxTabTicks == 3

Synced(ttl, compress) ==
  [Item(ttl, NoDelay) EXCEPT !.syncTabsState = TRUE, !.compress = compress]

TabConfigs ==
  {[e |-> Synced(NoTtl, "none")],
   [w |-> Synced([kind |-> "whole", minutes |-> 1], "none")],
   [p |-> Synced([kind |-> "parts", minutes |-> 1], "none")],
   [z |-> Synced(NoTtl, "lz")]}

\* a string that JSON.parse rejects
NotJson == [BareEntry({}) EXCEPT !.bad = "json"]

\* the strings that another tab, an older version or a stranger may leave
\* under the key of an item
StoredStrings(key) ==
  IF key = "e"
    THEN {BareEntry({"A"}), BareEntry({"A", "B"}), BareEntry({"?"}), NotJson}
  ELSE IF key = "w"
    THEN {BareEntry({"A"}),
          createEnvelopePayload({"A"}, [updatedAt |-> 0, parts |-> << >>]),
          createEnvelopePayload({"B"}, [updatedAt |-> MS_PER_MINUTE, parts |-> << >>]),
          createEnvelopePayload({"?"}, [updatedAt |-> MS_PER_MINUTE, parts |-> << >>])}
  ELSE IF key = "p"
    THEN {BareEntry({"A"}),
          createEnvelopePayload({"A", "B"},
            [updatedAt |-> MS_PER_MINUTE, parts |-> [A |-> 0, B |-> MS_PER_MINUTE]]),
          NotJson}
  ELSE {BareEntry({"A"}),
        [BareEntry({"A"}) EXCEPT !.c = "lz"],
        [BareEntry({"B"}) EXCEPT !.c = "gz"],
        [BareEntry({"?"}) EXCEPT !.c = "lz"],
        [BareEntry({}) EXCEPT !.c = "lz", !.bad = "inflate"]}

\* the storage events: a new string, or the removal of the entry
Events(key) ==
  {[removed |-> FALSE, newValue |-> raw] : raw \in StoredStrings(key)}
    \cup {[removed |-> TRUE, newValue |-> BareEntry({})]}

TabArgs == {[kind |-> "value", v |-> {"A", "B"}]}

\* what the storage may hold at construction: nothing, or a string under
\* the key of the item
LeftInStorage(config) ==
  {<< >>} \cup UNION {{(KeyOf(key) :> raw) : raw \in StoredStrings(key)} :
                       key \in DOMAIN config}

InitTabs ==
  /\ items \in TabConfigs
  /\ sessionId = << >>
  /\ quota = NoQuota
  /\ now = 0
  /\ localStorage \in LeftInStorage(items)
  /\ tracked = {}
  /\ InitEmpty

NextTabs ==
  \/ \E key \in DOMAIN items, arg \in TabArgs : Set(key, arg)
  \/ \E key \in DOMAIN items : Get(key)
  \/ \E key \in DOMAIN items : \E event \in Events(key) :
       ExternalChange(getLocalStorageItemKey(key), event)
  \/ \E storageKey \in DOMAIN ttlStates : TtlTimerFire(storageKey)
  \/ Advance(MaxTabTicks)

SpecTabs == InitTabs /\ [][NextTabs]_vars

(***************************************************************************)
(* Properties of SpecTabs.  They are stated on the state that the listener *)
(* leaves, lastOp.arg being the event it handled.                          *)
(***************************************************************************)
\* the string decodes to a value of the schema: it is JSON, its compression
\* tag, if any, is the configured format and inflates, its value is accepted
Decodes(key, raw) ==
  /\ raw.bad = "none"
  /\ raw.c \in {"none", items[key].compress}
  /\ schemaAccepts(key, raw.v)

\* no stamp that the string carries has run out at instant t
Unexpired(key, raw, t) ==
  \/ ~raw.w
  \/ items[key].ttl.kind = "none"
  \/ /\ items[key].ttl.kind = "whole"
     /\ t - raw.t * MS_PER_MINUTE < getTtlDurationMs(items[key].ttl)
  \/ /\ items[key].ttl.kind = "parts"
     /\ \A x \in DOMAIN raw.p :
          t - raw.p[x] * MS_PER_MINUTE < getTtlDurationMs(items[key].ttl)

\* the listener has just handled an event of the item's current physical key
AfterEvent ==
  /\ lastOp.op = "external"
  /\ lastOp.key = getLocalStorageItemKey(lastOp.key.item)

\* C14 as stated: after an external change of the item's current physical key
\* to a schema-valid value v, get returns v; after an external removal, get
\* returns the default
C14_AdoptsExternal ==
  AfterEvent =>
    IF lastOp.arg.removed
      THEN Returned(lastOp.key.item) = items[lastOp.key.item].default
      ELSE Decodes(lastOp.key.item, lastOp.arg.newValue)
             => Returned(lastOp.key.item) = lastOp.arg.newValue.v

\* C14: after an external change of the item's current physical key to a
\* schema-valid value v none of whose TTL stamps has run out, get returns v;
\* after an external removal, get returns the default
C14_AdoptsLiveExternal ==
  AfterEvent =>
    IF lastOp.arg.removed
      THEN Returned(lastOp.key.item) = items[lastOp.key.item].default
      ELSE (/\ Decodes(lastOp.key.item, lastOp.arg.newValue)
            /\ Unexpired(lastOp.key.item, lastOp.arg.newValue, now))
             => Returned(lastOp.key.item) = lastOp.arg.newValue.v

\* an event with a stamped value of the schema, not yet run out, was handled
\* some time after construction, and get returns that value
C14_Witness ==
  /\ AfterEvent
  /\ now > 0
  /\ ~lastOp.arg.removed
  /\ lastOp.arg.newValue.w
  /\ Decodes(lastOp.key.item, lastOp.arg.newValue)
  /\ Unexpired(lastOp.key.item, lastOp.arg.newValue, now)
  /\ Returned(lastOp.key.item) = lastOp.arg.newValue.v

\* C15: after an external change notification whose data fails decoding or
\* schema validation, the in-memory value of the item is the default and
\* nothing was thrown
C15_InvalidFallsBack ==
  (/\ AfterEvent
   /\ ~lastOp.arg.removed
   /\ ~Decodes(lastOp.key.item, lastOp.arg.newValue))
    => /\ lastOp.err = "none"
       /\ itemStores[lastOp.key] = items[lastOp.key.item].default

\* C16: handling an external change notification makes no physical write,
\* whatever the configuration of the item
C16_NoWriteOnExternal == lastOp.op = "external" => lastOp.obs = "quiet"

MaxPruneLen == 6

\* the floor of the step functions that stop shrinking
StallLen == 3

\* the number of elements that the predicate prune keeps
KeepLen == 5

PruneSteps ==
  {[floor |-> 0, atFloor |-> "copy"],
   [floor |-> StallLen, atFloor |-> "copy"],
   [floor |-> StallLen, atFloor |-> "same"],
   [floor |-> StallLen, atFloor |-> "grow"],
   [floor |-> MAX_ITERATIONS + MaxPruneLen, atFloor |-> "copy"]}

Pruned(predicate, step) ==
  [Item(NoTtl, NoDelay) EXCEPT
     !.schema = "numbers",
     !.autoPrune = [on |-> predicate, keep |-> KeepLen],
     !.autoPruneBySize = [on |-> TRUE, maxBytes |-> JsonLen({1, 2}), step |-> step]]

PruneConfigs == {[l |-> Pruned(predicate, step)] : predicate \in BOOLEAN, step \in PruneSteps}

PruneArgs ==
  {[kind |-> "value", v |-> 1..n] :
     n \in (1..MaxPruneLen) \cup {MAX_ITERATIONS + 3, MAX_ITERATIONS + 4}}

InitPrune ==
  /\ items \in PruneConfigs
  /\ sessionId = << >>
  /\ quota = NoQuota
  /\ now = 0
  /\ localStorage = << >>
  /\ tracked = {}
  /\ InitEmpty

NextPrune ==
  \/ \E key \in DOMAIN items, arg \in PruneArgs : Set(key, arg)
  \/ \E key \in DOMAIN items : Get(key)
  \/ \E key \in DOMAIN items : Delete(key)

SpecPrune == InitPrune /\ [][NextPrune]_vars

(***************************************************************************)
(* Properties of SpecPrune, stated on the argument of the last set         *)
(***************************************************************************)
\* cur after one more step, if cur is over the size bound and the step
\* returns a smaller value that is not its input; cur otherwise
SafeStep(bySize, cur) ==
  IF JsonLen(cur) <= bySize.maxBytes THEN cur
  ELSE IF \/ performPruneStep(bySize.step, cur).same
          \/ JsonLen(performPruneStep(bySize.step, cur).value) >= JsonLen(cur)
    THEN cur
  ELSE performPruneStep(bySize.step, cur).value

\* the value reached from cur by n steps at most, up to the size bound or
\* the first step whose result is rejected
RECURSIVE LastSafeValue(_, _, _)
LastSafeValue(bySize, cur, n) ==
  IF JsonLen(cur) <= bySize.maxBytes \/ n = 0 THEN cur
  ELSE IF n = 1 THEN SafeStep(bySize, cur)
  ELSE LastSafeValue(bySize, LastSafeValue(bySize, cur, n \div 2), n - n \div 2)

\* the last call was set(key, value) of an array
AfterSet == lastOp.op = "set" /\ lastOp.arg.kind = "value"

\* the value that size-bounded pruning should leave of the last argument
SafeOfLast ==
  LastSafeValue(items[lastOp.key.item].autoPruneBySize,
                autoPrune(lastOp.key.item, lastOp.arg.v), MAX_ITERATIONS)

\* the number of steps that shrank the last argument
StepsOfLast ==
  Cardinality(autoPrune(lastOp.key.item, lastOp.arg.v)) - Cardinality(SafeOfLast)

\* C18: when size-bounded pruning meets a step whose output is not smaller
\* or is its input, the result is the value as it was just before that step:
\* the predicate prune and the earlier steps are kept
C18_KeepsValueBeforeRejectedStep ==
  (/\ AfterSet
   /\ JsonLen(SafeOfLast) > items[lastOp.key.item].autoPruneBySize.maxBytes
   /\ StepsOfLast < MAX_ITERATIONS)
    => applyAutoPrune(lastOp.key.item, lastOp.arg.v) = SafeOfLast

\* C19: size-bounded pruning ends after at most MAX_ITERATIONS calls of the
\* step function whatever the function returns and throws nothing; when
\* the ceiling is reached the value shrunk so far is kept and the
\* diagnostic is logged
C19_PruneTerminates ==
  AfterSet =>
    /\ autoPruneRun(lastOp.key.item, lastOp.arg.v).done
    /\ autoPruneRun(lastOp.key.item, lastOp.arg.v).calls <= MAX_ITERATIONS
    /\ lastOp.err = "none"
    /\ (/\ JsonLen(SafeOfLast) > items[lastOp.key.item].autoPruneBySize.maxBytes
        /\ StepsOfLast = MAX_ITERATIONS)
         => /\ autoPruneRun(lastOp.key.item, lastOp.arg.v).log = "max iterations"
            /\ applyAutoPrune(lastOp.key.item, lastOp.arg.v) = SafeOfLast
            /\ itemStores[lastOp.key] = SafeOfLast

\* a set whose pruning made MAX_ITERATIONS steps and was still over the bound
C19_Witness ==
  /\ AfterSet
  /\ StepsOfLast = MAX_ITERATIONS
  /\ JsonLen(itemStores[lastOp.key]) > items[lastOp.key.item].autoPruneBySize.maxBytes
  /\ Cardinality(itemStores[lastOp.key]) = Cardinality(lastOp.arg.v) - MAX_ITERATIONS

(***************************************************************************)
(* SpecEvict: items of several priorities and scopes, written under two    *)
(* session ids into a storage that holds four small entries at most.  No   *)
(* item has a TTL or a sync delay, so nothing here depends on the clock    *)
(* and the start-up sweep finds nothing to do.                             *)
(***************************************************************************)
EvictItems ==
  [a |-> Item(NoTtl, NoDelay),
   c |-> [Item(NoTtl, NoDelay) EXCEPT !.priority = 5],
   g |-> [Item(NoTtl, NoDelay) EXCEPT !.ignoreSessionId = TRUE]]

\* the last value is larger than the whole quota
EvictArgs ==
  {[kind |-> "value", v |-> {"A"}],
   [kind |-> "value", v |-> {"A", "B"}],
   [kind |-> "value", v |-> {"A", "B", "C", "D", "E"}],
   [kind |-> "undefined", v |-> {}]}

\* room for two one-part entries and a two-part entry
EvictQuota == 2 * JsonLen({"A"}) + JsonLen({"A", "B"}) + 1

InitEvict ==
  /\ localStorage = << >>
  /\ items = EvictItems
  /\ sessionId \in Sessions
  /\ quota = EvictQuota
  /\ now = 0
  /\ tracked = {}
  /\ InitEmpty

NextEvict ==
  \/ \E key \in DOMAIN items, arg \in EvictArgs : Set(key, arg)
  \/ \E key \in DOMAIN items : Get(key)
  \/ \E id \in Sessions : SwitchSession(id)

SpecEvict == InitEvict /\ [][NextEvict]_vars

(***************************************************************************)
(* SpecPhases: a TTL item, a tab-scoped item and a plain item under a      *)
(* small quota and one session id, with entries left in storage by an      *)
(* earlier page load                                                       *)
(***************************************************************************)
PhaseItems ==
  [a |-> Item(NoTtl, NoDelay),
   s |-> [Item(NoTtl, NoDelay) EXCEPT !.useSessionStorage = TRUE],
   t |-> Item([kind |-> "whole", minutes |-> 1], NoDelay)]

\* the last value is larger than the whole quota once wrapped for t
PhaseArgs ==
  {[kind |-> "value", v |-> {"A"}],
   [kind |-> "value", v |-> {"A", "B", "C"}],
   [kind |-> "value", v |-> {"A", "B", "C", "D", "E"}],
   [kind |-> "undefined", v |-> {}]}

\* what an earlier page load left: a value of t stored before t had a TTL,
\* and an entry of t written at instant 0 under another session
LegacyStorage ==
  [k \in {[sid |-> <<"x">>, ss |-> FALSE, item |-> "t"],
          [sid |-> <<"x", "y">>, ss |-> FALSE, item |-> "t"]} |->
     IF k.sid = <<"x">> THEN BareEntry({"A"})
     ELSE createEnvelopePayload({"A"}, [updatedAt |-> 0, parts |-> << >>])]

\* room for a one-part entry of each item with two bytes to spare, not for
\* two entries of t
PhaseQuota == EntryLen(createEnvelopePayload({"A"}, [updatedAt |-> 0, parts |-> << >>]))
              + 2 * JsonLen({"A"}) + 2

InitPhases ==
  /\ localStorage \in {<< >>, LegacyStorage}
  /\ items = PhaseItems
  /\ sessionId \in Sessions
  /\ quota = PhaseQuota
  /\ now = 0
  /\ tracked = {}
  /\ InitEmpty

NextPhases ==
  \/ \E key \in DOMAIN items, arg \in PhaseArgs : Set(key, arg)
  \/ \E key \in DOMAIN items : Delete(key)
  \/ \E key \in DOMAIN items : Get(key)
  \/ \E storageKey \in DOMAIN ttlStates : TtlTimerFire(storageKey)
  \/ StartupSweep
  \/ Advance(MaxQuotaTicks)

SpecPhases == InitPhases /\ [][NextPhases]_vars

(***************************************************************************)
(* Properties of SpecEvict and SpecPhases.  They are stated on the         *)
(* evictions that the last call made, each recorded with the storages as   *)
(* they were just before it.                                               *)
(***************************************************************************)
Evictions(phase) == {i \in DOMAIN lastOp.ev : lastOp.ev[i].phase = phase}

\* the configured priority of the item of a physical key, 0 when none is set
PriorityOf(storageKey) ==
  IF items[storageKey.item].priority = -1 THEN 0 ELSE items[storageKey.item].priority

\* the persistent entries other than the one being written
Others(e) == (DOMAIN e.ls) \ {e.key}

\* the session-scoped ones among them whose key does not start with the
\* prefix of the current session
OtherSessions(e) == {k \in Others(e) : k.sid # << >> /\ ~IsPrefix(sessionId, k.sid)}

\* the candidates of an eviction
Eligible(e) == IF OtherSessions(e) # {} THEN OtherSessions(e) ELSE Others(e)

\* C4: every entry evicted by the priority-ordered phase has the lowest
\* configured priority (default 0) among the eligible candidates and, among
\* those of that priority, the largest stored size
C4_LowestPriorityFirst ==
  \A i \in Evictions(3) :
    /\ lastOp.ev[i].victim \in Eligible(lastOp.ev[i])
    /\ \A o \in Eligible(lastOp.ev[i]) :
         \/ PriorityOf(lastOp.ev[i].victim) < PriorityOf(o)
         \/ /\ PriorityOf(lastOp.ev[i].victim) = PriorityOf(o)
            /\ EntryLen(lastOp.ev[i].ls[lastOp.ev[i].victim]) >= EntryLen(lastOp.ev[i].ls[o])

\* an eviction chose among a candidate of higher priority and two of the
\* lowest priority, and took the larger of the two
C4_Witness ==
  \E i \in Evictions(3) :
    /\ \E o \in Eligible(lastOp.ev[i]) : PriorityOf(o) > PriorityOf(lastOp.ev[i].victim)
    /\ \E o \in Eligible(lastOp.ev[i]) :
         /\ PriorityOf(o) = PriorityOf(lastOp.ev[i].victim)
         /\ EntryLen(lastOp.ev[i].ls[o]) < EntryLen(lastOp.ev[i].ls[lastOp.ev[i].victim])

ExpiredIn(storage, k) ==
  /\ items[k.item].ttl.kind = "whole"
  /\ storage[k].w
  /\ now - storage[k].t * MS_PER_MINUTE >= items[k.item].ttl.minutes * MS_PER_MINUTE

\* an expired TTL entry other than the one being written
ExpiredOthers(e) ==
  {k \in (DOMAIN e.ls) \ {e.key} : ExpiredIn(e.ls, k)}
    \cup {k \in (DOMAIN e.ss) \ {e.key} : ExpiredIn(e.ss, k)}

\* the write that is being recovered does not fit into the storages of e
StillFails(e) == checkQuotaError([ls |-> e.ls, ss |-> e.ss], e.isSession, e.key, e.raw)

\* the eviction e is made in phase order: a tab-scoped entry goes when no
\* expired entry is left, a live persistent entry when neither is left and
\* the write still fails
InPhaseOrder(e) ==
  /\ e.phase = 1 => StillFails(e)
  /\ e.phase = 2 => ExpiredOthers(e) = {}
  /\ (e.phase = 3 /\ e.victim \notin ExpiredOthers(e)) =>
       /\ ExpiredOthers(e) = {}
       /\ (DOMAIN e.ss) \ {e.key} = {}
       /\ StillFails(e)

C7_ErrorOnlyWhenExhausted ==
  lastOp.err = "quota" =>
    \A k \in DOMAIN localStorage \cup DOMAIN sessionStorage : k = lastOp.key

\* a set raised the error after its recovery had removed a tab-scoped entry
\* and evicted a persistent one
C7_Witness ==
  /\ lastOp.op = "set"
  /\ lastOp.err = "quota"
  /\ Evictions(2) # {}
  /\ Evictions(3) # {}


(***************************************************************************)
(* SpecSweep: an instance constructed over a storage that already holds    *)
(* entries: of its own item (e without TTL and with a debounce, w with a   *)
(* whole-item TTL, p with a partitioned TTL), of an item that is no longer *)
(* configured, and of other code of the page.  The start-up idle callback  *)
(* may run before or after the first calls.                                *)
(***************************************************************************)
MaxSweepTicks == 4

SweepConfigs ==
  {[e |-> [Synced(NoTtl, "none") EXCEPT !.syncDelay = Debounce(DebounceMs, 0)]],
   [w |-> Synced([kind |-> "whole", minutes |-> 1], "none")],
   [p |-> Synced([kind |-> "parts", minutes |-> 1], "none")]}

\* a key of other code of the page: it does not begin with slsm
ForeignKey == [foreign |-> "theme"]

\* slsm||old and slsm|s||old: old is not an item of the configuration
OldKey == [sid |-> << >>, ss |-> FALSE, item |-> "old"]

OldTabKey == [OldKey EXCEPT !.ss = TRUE]

\* what localStorage may hold at construction
LeftInLocal(config) ==
  {own @@ old @@ foreign :
     own \in LeftInStorage(config),
     old \in {<< >>, OldKey :> BareEntry({"A"})},
     foreign \in {<< >>, ForeignKey :> BareEntry({"B"})}}

SweepArgs == {[kind |-> "value", v |-> {"A", "B"}]}

InitSweep ==
  /\ items \in SweepConfigs
  /\ sessionId = << >>
  /\ quota = NoQuota
  /\ now \in {0, MaxSweepTicks * Step}
  /\ localStorage \in LeftInLocal(items)
  /\ sessionStorage \in {<< >>, OldTabKey :> BareEntry({"A"})}
  /\ tracked = {}
  /\ InitFresh

NextSweep ==
  \/ StartupSweep
  \/ ClearAll
  \/ \E key \in DOMAIN items, arg \in SweepArgs : Set(key, arg)
  \/ \E key \in DOMAIN items : Get(key)
  \/ \E key \in DOMAIN items : \E event \in Events(key) :
       ExternalChange(getLocalStorageItemKey(key), event)
  \/ \E storageKey \in DOMAIN ttlStates : TtlTimerFire(storageKey)
  \/ \E timer \in syncTimers : SyncTimerFire(timer)
  \/ Advance(MaxSweepTicks + 2)

SpecSweep == InitSweep /\ [][NextSweep]_vars

(***************************************************************************)
(* Properties of SpecSweep                                                 *)
(***************************************************************************)
\* the entries that do not belong to the namespace
Foreign(storage) == [k \in {x \in DOMAIN storage : ~IsNamespaced(x)} |-> storage[k]]

\* C21: after a clearAll that returned, no key of the namespace is left in
\* localStorage or sessionStorage, get returns the default of every item,
\* and the entries of other keys are as they were
C21_ClearAllLeavesNothing ==
  [][(lastOp'.op = "clearAll" /\ lastOp'.err = "none")
       => /\ getStorageItemKeys(localStorage', NoKey) = {}
          /\ getStorageItemKeys(sessionStorage', NoKey) = {}
          /\ \A key \in DOMAIN items : Returned(key)' = items[key].default
          /\ Foreign(localStorage') = Foreign(localStorage)
          /\ Foreign(sessionStorage') = Foreign(sessionStorage)]_vars

\* the namespaced keys of both storages
NamespacedKeys(ls, ss) == getStorageItemKeys(ls, NoKey) \cup getStorageItemKeys(ss, NoKey)

\* the entry of a configured item in which nothing has expired at instant t,
\* going by the stamps it carries
NothingExpired(storage, k, t) ==
  /\ getItemKeyFromStorageKey(k) \in DOMAIN items
  /\ Decodes(getItemKeyFromStorageKey(k), storage[k])
       => Unexpired(getItemKeyFromStorageKey(k), storage[k], t)

\* what the start-up sweep leaves in one storage
SweptStorage(before, after) ==
  /\ \A k \in getStorageItemKeys(after, NoKey) :
       /\ getItemKeyFromStorageKey(k) \in DOMAIN items
       /\ (items[k.item].ttl.kind = "whole" /\ Decodes(k.item, after[k]))
            => Unexpired(k.item, after[k], now)
  /\ \A k \in getStorageItemKeys(before, NoKey) :
       NothingExpired(before, k, now) => (k \in DOMAIN after /\ after[k] = before[k])

\* C26: once the start-up idle callback has run, every namespaced entry of
\* both storages belongs to a configured item, no entry of a whole-item TTL
\* item carries a stamp that has run out, and the entries of configured
\* items in which nothing had expired are as they were
C26_StartupSweepCleans ==
  [][lastOp'.op = "startup"
       => /\ lastOp'.err = "none"
          /\ SweptStorage(localStorage, localStorage')
          /\ SweptStorage(sessionStorage, sessionStorage')]_vars

\* the sweep removed the entry of the retired item and kept a stamped entry
\* of the configured item next to the entry of other code
C26_Witness ==
  /\ lastOp.op = "startup"
  /\ lastOp.obs = "removed"
  /\ OldKey \notin DOMAIN localStorage
  /\ ForeignKey \in DOMAIN localStorage
  /\ \E key \in DOMAIN items :
       /\ items[key].ttl.kind # "none"
       /\ KeyOf(key) \in DOMAIN localStorage
       /\ localStorage[KeyOf(key)].w

\* a string in the bare shape that decodes to a value of the item
BareValue(key, raw) == ~raw.w /\ Decodes(key, raw)

\* this step is the first read of a bare entry of the item: by the start-up
\* sweep or by the first get, of an entry that was in the storage, or by
\* the storage listener, of the string that another tab has just written
FirstReadOfBare(key) ==
  \/ /\ lastOp'.op = "startup"
     /\ KeyOf(key) \notin DOMAIN ttlStates \cup DOMAIN itemStores
     /\ KeyOf(key) \in DOMAIN localStorage
     /\ BareValue(key, localStorage[KeyOf(key)])
  \/ /\ lastOp'.op = "get"
     /\ KeyOf(key) \notin DOMAIN ttlStates \cup DOMAIN itemStores
     /\ KeyOf(key) \in DOMAIN localStorage
     /\ BareValue(key, localStorage[KeyOf(key)])
  \/ /\ lastOp'.op = "external"
     /\ ~lastOp'.arg.removed
     /\ BareValue(key, lastOp'.arg.newValue)

\* C25: the step that first reads a bare entry of a TTL item leaves the
\* entry wrapped, with the instant of the read as its time stamp (at the
\* granularity of the envelope)
C25_BareEntryWrappedOnFirstRead ==
  [][\A key \in DOMAIN items :
       (items[key].ttl.kind # "none" /\ FirstReadOfBare(key))
         => /\ KeyOf(key) \in DOMAIN localStorage'
            /\ localStorage'[KeyOf(key)].w
            /\ localStorage'[KeyOf(key)].t = toEnvelopeMinutes(now)]_vars

(***************************************************************************)
(* SpecSession: one item, session-scoped with deferred writes (a),         *)
(* session-scoped and written at once (b) or ignoring the session id (g),  *)
(* used while getSessionId() returns one of two ids or false.              *)
(***************************************************************************)
MaxSessionTicks == 2

SessionConfigs ==
  {[a |-> Item(NoTtl, Debounce(DebounceMs, 0))],
   [b |-> Item(NoTtl, NoDelay)],
   [g |-> [Item(NoTtl, NoDelay) EXCEPT !.ignoreSessionId = TRUE]]}

SessionIds == {<<"x">>, <<"y">>, NoSession}

SessionArgs == {[kind |-> "value", v |-> {"A"}], [kind |-> "value", v |-> {"B"}]}

\* recipes that replace the array by ['C'], and the fallback []
Recipes == {[kind |-> "recipe", v |-> {"C"}]}

InitSession ==
  /\ localStorage = << >>
  /\ items \in SessionConfigs
  /\ sessionId \in SessionIds
  /\ quota = NoQuota
  /\ now = 0
  /\ tracked = {}
  /\ InitEmpty

NextSession ==
  \/ \E key \in DOMAIN items, arg \in SessionArgs : Set(key, arg)
  \/ \E key \in DOMAIN items, recipe \in Recipes : Produce(key, recipe)
  \/ \E key \in DOMAIN items, recipe \in Recipes : ProduceWithFallback(key, {}, recipe)
  \/ \E key \in DOMAIN items : Delete(key)
  \/ \E key \in DOMAIN items : Get(key)
  \/ \E id \in SessionIds : SwitchSession(id)
  \/ \E timer \in syncTimers : SyncTimerFire(timer)
  \/ Advance(MaxSessionTicks)

SpecSession == InitSession /\ [][NextSession]_vars

(***************************************************************************)
(* Properties of SpecSession                                               *)
(***************************************************************************)
Mutators == {"set", "produce", "produceWithFallback", "delete"}

\* the value of the entry of storageKey, or of the write that is pending
\* for it, or the default of the item
OwnValueIn(pend, storage, key, storageKey) ==
  IF storageKey \in DOMAIN pend THEN pend[storageKey].value
  ELSE IF storageKey \in DOMAIN storage THEN storage[storageKey].v
  ELSE items[key].default

OwnValue(key, storageKey) ==
  OwnValueIn(pendingSyncOperations, localStorage, key, storageKey)

\* C22: while no session is active, a set, produce, produceWithFallback or
\* delete of a session-scoped item changes no storage entry and no cached
\* value, and get returns the default; an item with ignoreSessionId is
\* read and written under its unscoped key
C22_NoSessionNoEffect ==
  [][sessionId = NoSession
       => \A key \in DOMAIN items :
            IF items[key].ignoreSessionId
              THEN /\ lastOp'.op \in Mutators \cup {"get"} => lastOp'.key = KeyOf(key)
                   /\ lastOp'.op \in {"set", "produce", "produceWithFallback"}
                        => /\ localStorage'[KeyOf(key)] = BareEntry(lastOp'.arg.v)
                           /\ Returned(key)' = lastOp'.arg.v
                   /\ lastOp'.op = "get" => lastGet'.value = OwnValue(key, KeyOf(key))
              ELSE /\ lastOp'.op \in Mutators
                        => /\ localStorage' = localStorage
                           /\ sessionStorage' = sessionStorage
                           /\ itemStores' = itemStores
                           /\ pendingSyncOperations' = pendingSyncOperations
                   /\ lastOp'.op = "get" => lastGet'.value = items[key].default
                   /\ Returned(key) = items[key].default]_vars

\* a set was called with no session while another session had left an
\* entry and a cached value
C22_Witness ==
  /\ sessionId = NoSession
  /\ lastOp.op = "set"
  /\ lastOp.key = NoKey
  /\ lastOp.arg.v = {"A"}
  /\ \E k \in DOMAIN localStorage : k.sid # << >> /\ k \in DOMAIN itemStores

\* the physical key of the item under session id
KeyUnder(id, key) == [sid |-> id, ss |-> FALSE, item |-> key]

\* everything that is kept for physical keys other than storageKey
Elsewhere(storage, stores, pend, storageKey) ==
  [ls |-> [k \in (DOMAIN storage) \ {storageKey} |-> storage[k]],
   stores |-> [k \in (DOMAIN stores) \ {storageKey} |-> stores[k]],
   pend |-> [k \in (DOMAIN pend) \ {storageKey} |-> pend[k].value]]

MaxLoadTicks == 3

LoadConfigs ==
  {[p |-> Item([kind |-> "parts", minutes |-> 1], Debounce(DebounceMs, 0))],
   [i |-> Item([kind |-> "parts", minutes |-> 1], OnIdle(DebounceMs))],
   [w |-> Item([kind |-> "whole", minutes |-> 1], Debounce(DebounceMs, MaxWaitMs))],
   [l |-> [Pruned(TRUE, [floor |-> 0, atFloor |-> "copy"])
             EXCEPT !.syncDelay = Debounce(DebounceMs, 0)]]}

\* what an earlier version or an earlier run left under the key of the item
LoadStrings(key) ==
  IF key = "l" THEN {BareEntry(1..2), BareEntry(1..(KeepLen + 1))}
  ELSE IF key = "w" THEN {BareEntry({"A"})}
  ELSE {BareEntry({"A"}),
        createEnvelopePayload({"A", "B"},
          [updatedAt |-> MS_PER_MINUTE, parts |-> [A |-> 0, B |-> MS_PER_MINUTE]])}

LoadArgs(key) ==
  IF key = "l" THEN {[kind |-> "value", v |-> 1..3]}
  ELSE {[kind |-> "value", v |-> {"A", "C"}]}

InitLoad ==
  /\ items \in LoadConfigs
  /\ sessionId = << >>
  /\ quota = NoQuota
  /\ now \in {0, MS_PER_MINUTE}
  /\ localStorage \in {<< >>} \cup UNION {{(KeyOf(key) :> raw) : raw \in LoadStrings(key)} :
                                           key \in DOMAIN items}
  /\ tracked = {}
  /\ InitEmpty

NextLoad ==
  \/ StartupSweep
  \/ \E key \in DOMAIN items : \E arg \in LoadArgs(key) : Set(key, arg)
  \/ \E key \in DOMAIN items : Get(key)
  \/ \E storageKey \in DOMAIN ttlStates : TtlTimerFire(storageKey)
  \/ \E timer \in syncTimers : SyncTimerFire(timer)
  \/ Advance(MaxLoadTicks + 3)

SpecLoad == InitLoad /\ [][NextLoad]_vars

(***************************************************************************)
(* Properties of SpecLoad                                                  *)
(***************************************************************************)
\* the steps that may find something to clean up in the entry of an item
CleanupSteps == {"get", "startup", "ttlTimer"}

\* the entry needs no clean-up at instant t: it is wrapped if the item has
\* a TTL, none of its stamps has run out and its value is pruned
CleanEntry(key, raw, t) ==
  /\ items[key].ttl.kind # "none" => raw.w
  /\ Unexpired(key, raw, t)
  /\ applyAutoPrune(key, raw.v) = raw.v

\* C24: whatever the sync delay of the item, a step that cleans up (the
\* load of the entry by the first get, a TTL evaluation by get, by the
\* proactive timer or by the start-up sweep) writes the cleaned entry
\* before it returns: after the first get the entry is clean and holds the
\* value that get returned, after any of these steps no stamp of the entry
\* has run out, and none of them leaves a write pending that was not
\* pending before
C24_CleanupWritesAtOnce ==
  [][lastOp'.op \in CleanupSteps
       => \A key \in DOMAIN items :
            /\ pendingSyncOperations' = pendingSyncOperations
                 \/ DOMAIN pendingSyncOperations' = {}
            /\ (KeyOf(key) \in DOMAIN localStorage' /\ Decodes(key, localStorage'[KeyOf(key)]))
                 => Unexpired(key, localStorage'[KeyOf(key)], now)
            /\ (/\ lastOp'.op = "get"
                /\ KeyOf(key) \notin DOMAIN itemStores
                /\ KeyOf(key) \in DOMAIN localStorage')
                 => /\ CleanEntry(key, localStorage'[KeyOf(key)], now)
                    /\ localStorage'[KeyOf(key)].v = lastGet'.value]_vars

\* the first get of an item with a debounce found parts that had run out
\* and left the entry rewritten without them, with no write pending
C24_Witness ==
  /\ lastOp.op = "get"
  /\ "p" \in DOMAIN items
  /\ now = MS_PER_MINUTE
  /\ pendingSyncOperations = << >>
  /\ KeyOf("p") \in DOMAIN localStorage
  /\ localStorage[KeyOf("p")].v = {"B"}
  /\ DOMAIN localStorage[KeyOf("p")].p = {"B"}

(***************************************************************************)
(* SpecThrow: one item with a user-supplied callback that throws whenever  *)
(* it is called: the predicate prune or the size-prune step of l, or       *)
(* splitIntoParts or removePart of p.  The storage may hold an entry at    *)
(* construction.                                                           *)
(***************************************************************************)
MaxThrowTicks == 4

ThrowConfigs ==
  {[l |-> [Pruned(TRUE, [floor |-> 0, atFloor |-> "copy"]) EXCEPT !.throwing = "autoPrune"]],
   [l |-> [Pruned(FALSE, [floor |-> 0, atFloor |-> "copy"])
             EXCEPT !.throwing = "performPruneStep"]],
   [p |-> [Item([kind |-> "parts", minutes |-> 1], NoDelay)
             EXCEPT !.throwing = "splitIntoParts"]],
   [p |-> [Item([kind |-> "parts", minutes |-> 1], NoDelay)
             EXCEPT !.throwing = "removePart"]]}

ThrowArgs(key) ==
  IF key = "l" THEN {[kind |-> "value", v |-> 1..n] : n \in 1..3}
  ELSE {[kind |-> "value", v |-> {"A"}], [kind |-> "value", v |-> {"A", "C"}]}

InitThrow ==
  /\ items \in ThrowConfigs
  /\ sessionId = << >>
  /\ quota = NoQuota
  /\ now \in {0, MS_PER_MINUTE}
  /\ localStorage \in {<< >>} \cup UNION {{(KeyOf(key) :> raw) : raw \in LoadStrings(key)} :
                                           key \in DOMAIN items}
  /\ tracked = {}
  /\ InitEmpty

NextThrow ==
  \/ \E key \in DOMAIN items : \E arg \in ThrowArgs(key) : Set(key, arg)
  \/ \E key \in DOMAIN items : \E arg \in ThrowArgs(key) :
       Produce(key, [arg EXCEPT !.kind = "recipe"])
  \/ \E key \in DOMAIN items : Get(key)
  \/ \E key \in DOMAIN items : Delete(key)
  \/ \E storageKey \in DOMAIN ttlStates : TtlTimerFire(storageKey)
  \/ Advance(MaxThrowTicks + 3)

SpecThrow == InitThrow /\ [][NextThrow]_vars

\* C27: a get, set or produce never ends with the exception of a callback
\* of the item
C27_CallbackErrorsCaught ==
  lastOp.op \in {"get", "set", "produce"} => lastOp.err # "callback"

(***************************************************************************)
(* SpecCodec: one item without TTL, compression, pruning or sync delay     *)
(* whose schema accepts arrays and objects (SchemaJson), some of them with *)
(* fields named as those of the envelope; it is written, the page is       *)
(* loaded again and the item is read.                                      *)
(***************************************************************************)
CodecItems ==
  [o |-> [Item(NoTtl, NoDelay) EXCEPT !.schema = "json", !.default = JArr({})]]

InitCodec ==
  /\ items = CodecItems
  /\ sessionId = << >>
  /\ quota = NoQuota
  /\ now = 0
  /\ localStorage = << >>
  /\ tracked = {}
  /\ InitEmpty

NextCodec ==
  \/ \E key \in DOMAIN items, value \in SchemaJson : SetJson(key, value)
  \/ Reload
  \/ \E key \in DOMAIN items : Get(key)

SpecCodec == InitCodec /\ [][NextCodec]_vars

\* C28: the first get of a new instance returns the value that the last set
\* of the instance before it wrote
C28_BareRoundTrip ==
  [][(lastOp.op = "reload" /\ lastOp'.op = "get") => lastGet'.value = lastOp.arg]_vars

(***************************************************************************)
(* SpecAlias: one item, written at once (b), after a debounce (a) or at an *)
(* idle callback (i), set to arrays that the caller keeps and changes      *)
(* afterwards.                                                             *)
(***************************************************************************)
MaxAliasTicks == 3

AliasConfigs ==
  {[a |-> Item(NoTtl, Debounce(DebounceMs, 0))],
   [b |-> Item(NoTtl, NoDelay)],
   [i |-> Item([kind |-> "parts", minutes |-> 1], OnIdle(DebounceMs))]}

\* the caller passes arrays of its own
AliasArgs ==
  {[kind |-> "value", v |-> {"A", CallerMark}],
   [kind |-> "value", v |-> {"A", "B", CallerMark}]}

InitAlias ==
  /\ items \in AliasConfigs
  /\ sessionId = << >>
  /\ quota = NoQuota
  /\ now = 0
  /\ localStorage = << >>
  /\ tracked = {}
  /\ InitEmpty

NextAlias ==
  \/ \E key \in DOMAIN items, arg \in AliasArgs : Set(key, arg)
  \/ MutateArgument
  \/ \E key \in DOMAIN items : Get(key)
  \/ \E key \in DOMAIN items : Delete(key)
  \/ \E storageKey \in DOMAIN ttlStates : TtlTimerFire(storageKey)
  \/ \E timer \in syncTimers : SyncTimerFire(timer)
  \/ Advance(MaxAliasTicks)

SpecAlias == InitAlias /\ [][NextAlias]_vars

\* C29: when the caller changes the array it passed to set, the state of
\* the store of the item (the value that get returns), the stored entry and
\* the value of the pending write stay as they were
C29_SetKeepsCopy ==
  [][lastOp'.op = "mutate"
       => /\ itemStores' = itemStores
          /\ pendingSyncOperations' = pendingSyncOperations
          /\ syncTimers' = syncTimers
          /\ localStorage' = localStorage]_vars

\* the caller changed its array while the write of the set was pending
C29_Witness ==
  /\ lastOp.op = "mutate"
  /\ lastOp.key \in DOMAIN pendingSyncOperations
  /\ pendingSyncOperations[lastOp.key].value = {"A", "B"}
  /\ itemStores[lastOp.key] = {"A", "B"}
  /\ lastOp.key \notin DOMAIN localStorage


(***************************************************************************)
(* SpecStore: one item whose store the application mutates directly, with  *)
(* store.setState and store.produceState, next to set, produce, get and    *)
(* delete. n: a plain item; d: a debounce with a max wait; i: an idle      *)
(* callback; w: whole-item TTL; t: whole-item TTL with a debounce;         *)
(* l: predicate and size pruning; m: the same with a debounce.             *)
(***************************************************************************)
MaxStoreTicks == 3

StoreConfigs ==
  {[n |-> Item(NoTtl, NoDelay)],
   [d |-> Item(NoTtl, Debounce(DebounceMs, MaxWaitMs))],
   [i |-> Item(NoTtl, OnIdle(DebounceMs))],
   [w |-> Item([kind |-> "whole", minutes |-> 1], NoDelay)],
   [t |-> Item([kind |-> "whole", minutes |-> 1], Debounce(DebounceMs, 0))],
   [l |-> Pruned(TRUE, [floor |-> 0, atFloor |-> "copy"])],
   [m |-> [Pruned(TRUE, [floor |-> 0, atFloor |-> "copy"])
             EXCEPT !.syncDelay = Debounce(DebounceMs, 0)]]}

\* the next states and the results of the recipes
StoreValues(key) ==
  IF items[key].schema = "numbers" THEN {{}, {1}, 1..2, 1..(KeepLen + 1)}
  ELSE {{}, {"A"}, {"A", "B"}}

StoreArgs(key) == {[kind |-> "value", v |-> value] : value \in StoreValues(key)}

StoreRecipes(key) == {[kind |-> "recipe", v |-> value] : value \in StoreValues(key)}

InitStore ==
  /\ items \in StoreConfigs
  /\ sessionId = << >>
  /\ quota = NoQuota
  /\ now = 0
  /\ localStorage = << >>
  /\ tracked = {}
  /\ InitEmpty

NextStore ==
  \/ \E key \in DOMAIN items : \E next \in StoreArgs(key) : StoreSetState(key, next)
  \/ \E key \in DOMAIN items : \E recipe \in StoreRecipes(key) : StoreProduceState(key, recipe)
  \/ \E key \in DOMAIN items : \E arg \in StoreArgs(key) : Set(key, arg)
  \/ \E key \in DOMAIN items : \E recipe \in StoreRecipes(key) : Produce(key, recipe)
  \/ \E key \in DOMAIN items : Get(key)
  \/ \E key \in DOMAIN items : Delete(key)
  \/ \E storageKey \in DOMAIN ttlStates : TtlTimerFire(storageKey)
  \/ \E timer \in syncTimers : SyncTimerFire(timer)
  \/ Advance(MaxStoreTicks)

SpecStore == InitStore /\ [][NextStore]_vars

(***************************************************************************)
(* Properties of SpecStore                                                 *)
(***************************************************************************)
\* the state that the call of set or produce for the same value ends in
ThroughFacade(op, key, arg) ==
  IF op = "setState" THEN setItemValue(Cur, key, arg) ELSE produce(Cur, key, arg)

\* a mutation of the store of the item left what the pipeline of set leaves
\* for the pruned value: the store holds it; if it is the default there is
\* no entry, no TTL state and no pending write; otherwise it is written at
\* once for an item without sync delay, and kept pending, the entry
\* untouched, for an item with one and no write pending before; what is
\* written or kept pending carries the stamp of this instant for a TTL item
PipelineApplied(storageKey, key, pruned) ==
  /\ itemStores'[storageKey] = pruned
  /\ pruned = items[key].default
       => /\ storageKey \notin DOMAIN localStorage'
          /\ storageKey \notin DOMAIN ttlStates'
          /\ storageKey \notin DOMAIN pendingSyncOperations'
  /\ (pruned # items[key].default /\ getSyncDelayForKey(key).type = "none")
       => /\ storageKey \in DOMAIN localStorage'
          /\ localStorage'[storageKey].v = pruned
          /\ storageKey \notin DOMAIN pendingSyncOperations'
          /\ items[key].ttl.kind # "none"
               => /\ localStorage'[storageKey].w
                  /\ localStorage'[storageKey].t = toEnvelopeMinutes(now)
                  /\ ttlStates'[storageKey].updatedAt = now
  /\ (/\ pruned # items[key].default
      /\ getSyncDelayForKey(key).type # "none"
      /\ storageKey \notin DOMAIN pendingSyncOperations)
       => /\ storageKey \in DOMAIN pendingSyncOperations'
          /\ pendingSyncOperations'[storageKey].value = pruned
          /\ storageKey \in DOMAIN localStorage' <=> storageKey \in DOMAIN localStorage
          /\ storageKey \in DOMAIN localStorage
               => localStorage'[storageKey] = localStorage[storageKey]
          /\ items[key].ttl.kind # "none"
               => pendingSyncOperations'[storageKey].metadata.updatedAt = now

\* C30: a mutation made through getStore(item).setState or produceState
\* goes through the pipeline of set and produce: the value is pruned by
\* predicate and by size, a result equal to the default removes the
\* physical entry, TTL metadata is stamped and the sync delay of the item
\* decides when the write happens; and whenever set or produce, called
\* with the same value, would change the item, the mutation leaves the
\* entry, the TTL state, the store, and the pending write that they leave
C30_StoreMutationsUsePipeline ==
  [][lastOp'.op \in {"setState", "produceState"}
       => /\ lastOp'.err = "none"
          /\ PipelineApplied(lastOp'.key, lastOp'.key.item,
                             applyAutoPrune(lastOp'.key.item, lastOp'.arg.v))
          /\ ThroughFacade(lastOp'.op, lastOp'.key.item, lastOp'.arg).obs # "same"
               => /\ localStorage' = ThroughFacade(lastOp'.op, lastOp'.key.item, lastOp'.arg).ls
                  /\ ttlStates' = ThroughFacade(lastOp'.op, lastOp'.key.item, lastOp'.arg).ttl
                  /\ itemStores' = ThroughFacade(lastOp'.op, lastOp'.key.item, lastOp'.arg).stores
                  /\ pendingSyncOperations'
                       = ThroughFacade(lastOp'.op, lastOp'.key.item, lastOp'.arg).pend
                  /\ syncTimers' = ThroughFacade(lastOp'.op, lastOp'.key.item, lastOp'.arg).timers]_vars

\* store.setState handed an array longer than the pruning allows to the
\* store of an item with a debounce: the store holds the pruned array and
\* the write of the pruned array is pending
C30_Witness ==
  /\ lastOp.op = "setState"
  /\ lastOp.arg.v = 1..(KeepLen + 1)
  /\ lastOp.key \in DOMAIN pendingSyncOperations
  /\ pendingSyncOperations[lastOp.key].value # lastOp.arg.v
  /\ pendingSyncOperations[lastOp.key].value = itemStores[lastOp.key]
  /\ lastOp.key \notin DOMAIN localStorage


(***************************************************************************)
(* Properties of SpecSync on the key of an item at rest                    *)
(***************************************************************************)
\* no deferred write and no debounce timer or idle callback is pending for
\* the key
AtRest(storageKey) ==
  /\ storageKey \notin DOMAIN pendingSyncOperations
  /\ \A timer \in syncTimers : timer.storageKey # storageKey

\* the lifetime that the most recent mutation of the key started is not over
Live(storageKey) ==
  \/ items[storageKey.item].ttl.kind = "none"
  \/ now < hist[storageKey].at + getTtlDurationMs(items[storageKey.item].ttl)

\* C31: once no deferred write and no timer is pending for the key of an
\* item, the physical entry decodes to the value of the most recently
\* issued mutation, as long as the lifetime that mutation started is not
\* over, or is absent when that mutation was a delete or gave the default,
\* and get returns that same value
C31_EntryAtRestIsLatest ==
  \A key \in DOMAIN items :
    AtRest(KeyOf(key)) =>
      IF KeyOf(key) \in DOMAIN hist
        THEN Live(KeyOf(key)) =>
               /\ KeyOf(key) \in DOMAIN localStorage
               /\ Decodes(key, localStorage[KeyOf(key)])
               /\ localStorage[KeyOf(key)].v = hist[KeyOf(key)].v
               /\ Returned(key) = hist[KeyOf(key)].v
        ELSE /\ KeyOf(key) \notin DOMAIN localStorage
             /\ Returned(key) = items[key].default

\* the same for the items without a TTL
C31_EntryAtRestIsLatestNoTtl ==
  \A key \in DOMAIN items :
    (AtRest(KeyOf(key)) /\ items[key].ttl.kind = "none") =>
      IF KeyOf(key) \in DOMAIN hist
        THEN /\ KeyOf(key) \in DOMAIN localStorage
             /\ Decodes(key, localStorage[KeyOf(key)])
             /\ localStorage[KeyOf(key)].v = hist[KeyOf(key)].v
             /\ Returned(key) = hist[KeyOf(key)].v
        ELSE /\ KeyOf(key) \notin DOMAIN localStorage
             /\ Returned(key) = items[key].default


(***************************************************************************)
(* Properties of SpecTtl on the TTL state kept in memory                   *)
(***************************************************************************)
\* the TTL state of the key holds the stamps of metadata
SameStamps(storageKey, metadata) ==
  /\ storageKey \in DOMAIN ttlStates
  /\ ttlStates[storageKey].updatedAt = metadata.updatedAt
  /\ ttlStates[storageKey].parts = metadata.parts

\* C32: after every mutation of a TTL item the TTL state of its key in
\* memory (last-update time and part times) equals the metadata that
\* decoding the persisted envelope of the key gives, and there is no TTL
\* state when there is no entry
C32_TtlStateAgreesWithEnvelope ==
  (lastOp.op = "set" /\ lastOp.err = "none")
    => IF lastOp.key \in DOMAIN localStorage
         THEN SameStamps(lastOp.key,
                parseStoredValue(lastOp.key.item, localStorage[lastOp.key]).metadata)
         ELSE lastOp.key \notin DOMAIN ttlStates


(***************************************************************************)
(* Properties of SpecClear on the cached values                            *)
(***************************************************************************)
\* C33: whenever a step of this instance removes the physical entry of a
\* key, the value cached for that same key is the default afterwards,
\* also when the key is of a session other than the current one
C33_RemovalResetsCachedValue ==
  [][\A k \in DOMAIN itemStores :
       (/\ k \in DOMAIN localStorage \cup DOMAIN sessionStorage
        /\ k \notin DOMAIN localStorage' \cup DOMAIN sessionStorage')
         => itemStores'[k] = items[k.item].default]_vars


\* the part stamps that the entry of the key carried before the step
EarlierParts(storageKey) ==
  IF storageKey \in DOMAIN localStorage /\ localStorage[storageKey].w
    THEN localStorage[storageKey].p ELSE << >>

MaxExpiryTicks == 8

ExpiryConfigs ==
  {[w |-> Item([kind |-> "whole", minutes |-> 1], NoDelay)],
   [t |-> Item([kind |-> "whole", minutes |-> 1], Debounce(DebounceMs, 0))]}

ExpiryArgs ==
  {[kind |-> "value", v |-> {"A"}],
   [kind |-> "value", v |-> {"A", "B"}],
   [kind |-> "undefined", v |-> {}]}

InitExpiry ==
  /\ items \in ExpiryConfigs
  /\ sessionId = << >>
  /\ quota = NoQuota
  /\ now = 0
  /\ localStorage = << >>
  /\ tracked = {}
  /\ InitEmpty

\* a mutation, made while the model has time left for its lifetime
EarlySet(key, arg) ==
  /\ now + 2 * getTtlDurationMs(items[key].ttl) <= MaxExpiryTicks * Step
  /\ Set(key, arg)

TtlTimers == \E storageKey \in DOMAIN ttlStates : TtlTimerFire(storageKey)

SyncTimers == \E timer \in syncTimers : SyncTimerFire(timer)

NextExpiry ==
  \/ \E key \in DOMAIN items, arg \in ExpiryArgs : EarlySet(key, arg)
  \/ TtlTimers
  \/ SyncTimers
  \/ StartupSweep
  \/ Advance(MaxExpiryTicks)

\* timers that are due run, and time passes
SpecExpiry ==
  /\ InitExpiry
  /\ [][NextExpiry]_vars
  /\ WF_vars(TtlTimers)
  /\ WF_vars(SyncTimers)
  /\ WF_vars(Advance(MaxExpiryTicks))

(***************************************************************************)
(* Properties of SpecExpiry                                                *)
(***************************************************************************)
\* at most one expiry timer is armed for a physical key
OneTimerPerKey ==
  \A t1 \in ttlTimers, t2 \in ttlTimers : t1.storageKey = t2.storageKey => t1 = t2

\* the key has a physical entry, or the write of one is pending
Written(storageKey) ==
  storageKey \in DOMAIN localStorage \cup DOMAIN pendingSyncOperations

\* nothing is left of the key and its cached value is the default
Expired(storageKey) ==
  /\ storageKey \notin DOMAIN localStorage
  /\ storageKey \notin DOMAIN pendingSyncOperations
  /\ storageKey \notin DOMAIN ttlStates
  /\ storageKey \in DOMAIN itemStores
       => itemStores[storageKey] = items[storageKey.item].default

\* C35: the entry of a whole-item TTL item written by this instance is
\* removed and the cached value reset to the default once mutations have
\* stopped and the timers run, with no call of get; and at no time is more
\* than one expiry timer armed for a physical key
C35_ExpiresWithoutGet ==
  /\ []OneTimerPerKey
  /\ \A key \in {"w", "t"} :
       (key \in DOMAIN items /\ Written(KeyOf(key))) ~> Expired(KeyOf(key))

\* the proactive timer removed the entry of the item: no get was made, the
\* lifetime of the last mutation is over and nothing is left
C35_Witness ==
  /\ lastOp.op = "ttlTimer"
  /\ lastOp.had.entry
  /\ Expired(lastOp.key)
  /\ now >= getTtlDurationMs(items[lastOp.key.item].ttl)


(***************************************************************************)
(* Properties of SpecTabs on the internal-update marker                    *)
(***************************************************************************)
\* C36: the internal-update marker of a key is not set when a user
\* mutation of that key runs, so a set that changes the value to one that
\* is not the default leaves the new value persisted under the key, also
\* right after an external change that was rejected as invalid or that
\* equals the cached value
C36_MarkerConsumed ==
  [][(lastOp'.op = "set" /\ lastOp'.err = "none" /\ lastOp'.obs = "changed")
       => /\ lastOp'.key \notin isInternalUpdate
          /\ lastOp'.key \in DOMAIN localStorage'
          /\ parseStoredValue(lastOp'.key.item, localStorage'[lastOp'.key]).value
               = itemStores'[lastOp'.key]]_vars


(***************************************************************************)
(* Properties of SpecCancel on the pending writes                          *)
(***************************************************************************)
\* C37: a pending-sync record exists for a physical key exactly when a
\* deferred-write timer or idle callback is armed for it, and the armed
\* one carries the payload of the record
C37_PendingIffTimerArmed ==
  /\ DOMAIN pendingSyncOperations = {timer.storageKey : timer \in syncTimers}
  /\ \A timer \in syncTimers : pendingSyncOperations[timer.storageKey].timer = timer


(***************************************************************************)
(* Properties of SpecTtl on the entries it writes.  The storage is empty   *)
(* at construction and no other tab writes, so every entry was written by  *)
(* this instance.                                                          *)
(***************************************************************************)
\* C38: no physical entry decodes to the default of its item: a result
\* equal to the default removes the entry, or leaves it absent
C38_NoEntryHoldsDefault ==
  \A k \in DOMAIN localStorage :
    parseStoredValue(k.item, localStorage[k]).ok
      => parseStoredValue(k.item, localStorage[k]).value # items[k.item].default


(***************************************************************************)
(* SpecStale: a synchronised item under a small quota, in a namespace      *)
(* that holds entries of an item that is not configured any more           *)
(***************************************************************************)
MaxStaleTicks == 3

StaleConfigs ==
  {[e |-> Synced(NoTtl, "none")],
   [w |-> Synced([kind |-> "whole", minutes |-> 1], "none")]}

StaleArgs ==
  {[kind |-> "value", v |-> {"A"}],
   [kind |-> "value", v |-> {"A", "B"}],
   [kind |-> "undefined", v |-> {}]}

\* room for the two entries of old and a two-part value of e, not for them
\* and an entry of w
StaleQuota == 2 * JsonLen({"A"}) + JsonLen({"A", "B"})

\* what another tab does to the entry of old
StaleEvents ==
  {[removed |-> FALSE, newValue |-> BareEntry({"B"})],
   [removed |-> TRUE, newValue |-> BareEntry({})]}

InitStale ==
  /\ items \in StaleConfigs
  /\ sessionId = << >>
  /\ quota = StaleQuota
  /\ now = 0
  /\ localStorage \in {<< >>, OldKey :> BareEntry({"A"})}
  /\ sessionStorage \in {<< >>, OldTabKey :> BareEntry({"A"})}
  /\ tracked = {}
  /\ InitFresh

NextStale ==
  \/ StartupSweep
  \/ \E key \in DOMAIN items, arg \in StaleArgs : Set(key, arg)
  \/ \E key \in DOMAIN items : Get(key)
  \/ \E key \in DOMAIN items : \E event \in Events(key) :
       ExternalChange(getLocalStorageItemKey(key), event)
  \/ \E event \in StaleEvents : ExternalChange(OldKey, event)
  \/ \E storageKey \in DOMAIN ttlStates : TtlTimerFire(storageKey)
  \/ Advance(MaxStaleTicks)

SpecStale == InitStale /\ [][NextStale]_vars

(***************************************************************************)
(* Properties of SpecStale                                                 *)
(***************************************************************************)
\* C39: quota recovery, TTL sweeps and the handling of external changes
\* tolerate the entries of an item that is not configured: a set, the
\* start-up sweep, an expiry timer and a storage event never end with an
\* error other than the capacity-exceeded one
C39_UnknownEntriesTolerated ==
  lastOp.op \in {"set", "startup", "ttlTimer", "external"}
    => lastOp.err \in {"none", "quota"}


\* round i of the eviction loop removed an entry of persistent storage other
\* than the key being written, and the entry has not come back
RemovedAnother(i) ==
  /\ lastOp.ev[i].victim # lastOp.ev[i].key
  /\ lastOp.ev[i].victim \in DOMAIN lastOp.ev[i].ls
  /\ lastOp.ev[i].victim \notin DOMAIN localStorage
  /\ \A j \in Evictions(3) : j > i => lastOp.ev[i].victim \notin DOMAIN lastOp.ev[j].ls

\* the write of the mutation that the last recovery was run for is in its
\* storage (a write made on load may be followed by the one of the mutation)
WriteWentThrough ==
  LET e == lastOp.ev[Len(lastOp.ev)]
  IN e.source = "mutation" =>
       IF e.isSession
         THEN e.key \in DOMAIN sessionStorage /\ sessionStorage[e.key] = e.raw
         ELSE e.key \in DOMAIN localStorage /\ localStorage[e.key] = e.raw

\* C40: quota recovery terminates for every storage content: every round of
\* the eviction loop removes one entry other than the key being written, and
\* a set that ran the recovery ends either with the write made or with the
\* capacity-exceeded error
C40_RecoveryTerminates ==
  (lastOp.op = "set" /\ lastOp.ev # << >>) =>
    /\ \A i \in Evictions(3) : RemovedAnother(i)
    /\ lastOp.err \in {"none", "quota"}
    /\ lastOp.err = "none" => WriteWentThrough

====
